---- MODULE Spec2Model ----
(***************************************************************************)
(* State-machine model of the SSO gateway's session/identity broker:       *)
(* login initiation, the post-login callback (token minting, cookie,       *)
(* back-channel handoff), the session endpoints and the token validators.  *)
(*                                                                         *)
(* A JavaScript object is a record holding its present keys; a key whose   *)
(* value is `undefined` holds Undef until JSON serialisation drops it.     *)
(* A value that is "one thing or nothing" (a redirect, a token in a        *)
(* header) is a set with at most one element.                              *)
(***************************************************************************)
EXTENDS Integers, Sequences, FiniteSets, TLC

VARIABLES env, clock, oidc, session, issued, resp, steps, completed, jar, inflight,
          sessionCookie, handling, store

vars == <<env, clock, oidc, session, issued, resp, steps, completed, jar, inflight,
          sessionCookie, handling, store>>

-----------------------------------------------------------------------------
(* Bounds of the exploration *)

MaxSteps == 4

Browsers == {"b1"}

-----------------------------------------------------------------------------
(* Values *)

Undef == "undefined"

BASE_URL == "https://sso.example"

OneDay == 86400

OneHour == 3600

FiveMinutes == 300

\* Keys whose values are strings (or undefined) in the objects modelled here
StringKeys == {"sub", "email", "name", "picture", "productId", "iss", "aud", "code"}

RolesKey == "https://sso-gateway.com/roles"

PermissionsKey == "https://sso-gateway.com/permissions"

\* obj.key, with a missing key reading as undefined
Get(obj, key) == IF key \in DOMAIN obj THEN obj[key] ELSE Undef

\* obj[key] || []
OrEmptyList(obj, key) == IF key \in DOMAIN obj THEN obj[key] ELSE <<>>

\* JSON.stringify drops the keys whose value is undefined
JsonDrop(obj) ==
  [k \in {k \in DOMAIN obj : ~(k \in StringKeys /\ obj[k] = Undef)} |-> obj[k]]

\* Identity claims the IdP may hand over: a full profile, and a minimal one
\* (no email, name, picture, roles or permissions)
IdpUsers ==
  { [sub |-> "auth0|u1", email |-> "u1@example.com", name |-> "User One",
     picture |-> "pic1"]
      @@ (RolesKey :> <<"admin">>) @@ (PermissionsKey :> <<"read">>),
    [sub |-> "auth0|u2"] }

ProductIdInputs == {Undef, "product1", "pluriell", "receipt", "nosuch"}

ReturnToInputs == {Undef, "https://a.example/dash"}

\* What the product's POST /api/sessions would answer if it were called
ProductAnswers == {"200-success", "200-no-success", "non-2xx", "timeout"}

\* crypto.randomBytes(32).toString('hex')
Codes == {"c0de01", "c0de02"}

-----------------------------------------------------------------------------
(* jsonwebtoken *)

SignError(msg) == [ok |-> FALSE, tokens |-> {}, error |-> msg]

\* jwt.sign(payload, secret, options): secret is the name of the key, or
\* Undef when the environment variable holding it is not set. options is a
\* record holding the options given (expiresIn in seconds, issuer).
\* sign() refuses a payload that already carries a claim an option would set.
JwtSign(payload, secret, options, now) ==
  IF secret = Undef
    THEN SignError("secretOrPrivateKey must have a value")
  ELSE IF "exp" \in DOMAIN payload /\ "expiresIn" \in DOMAIN options
    THEN SignError("Bad options.expiresIn option the payload already has an exp property")
  ELSE IF "iss" \in DOMAIN payload /\ "issuer" \in DOMAIN options
    THEN SignError("Bad options.issuer option. The payload already has an iss property")
  ELSE
    LET timed == IF "expiresIn" \in DOMAIN options
                   THEN [iat |-> now, exp |-> now + options.expiresIn]
                   ELSE [iat |-> now]
        issuer == IF "issuer" \in DOMAIN options
                    THEN [iss |-> options.issuer]
                    ELSE <<>>
        body == issuer @@ timed @@ JsonDrop(payload)
    IN [ok |-> TRUE,
        tokens |-> {[fmt |-> "jwt", alg |-> "HS256", kid |-> Undef,
                     payload |-> body, key |-> secret]},
        error |-> ""]

TheToken(signed) == CHOOSE t \in signed.tokens : TRUE

\* A string that is no JWT ('invalid-token' in the tests)
Garbage ==
  [fmt |-> "garbage", alg |-> Undef, kid |-> Undef, payload |-> <<>>, key |-> Undef]

\* A well-formed HS256 token signed with a secret that is not the broker's
Forged ==
  [fmt |-> "jwt", alg |-> "HS256", kid |-> Undef,
   payload |-> [sub |-> "auth0|u1", email |-> "u1@example.com", iss |-> "sso-gateway",
                iat |-> 0, exp |-> OneDay],
   key |-> "another-secret"]

\* A well-formed RS256 token naming the IdP's key id, signed with another key
ForgedIdp ==
  [fmt |-> "jwt", alg |-> "RS256", kid |-> "auth0-kid",
   payload |-> [sub |-> "auth0|u1", iss |-> "https://AUTH0_DOMAIN/",
                aud |-> "AUTH0_AUDIENCE", iat |-> 0, exp |-> OneDay],
   key |-> "another-key"]

\* The access token the IdP issues for AUTH0_AUDIENCE (RS256, key in the JWKS)
IdpToken(user, now) ==
  [fmt |-> "jwt", alg |-> "RS256", kid |-> "auth0-kid",
   payload |-> [sub |-> user.sub, iss |-> "https://AUTH0_DOMAIN/",
                aud |-> "AUTH0_AUDIENCE", iat |-> now, exp |-> now + OneDay],
   key |-> "auth0-signing-key"]

-----------------------------------------------------------------------------
(* URLs, cookies, responses *)

Url(base, path, param, value, tokens) ==
  [base |-> base, path |-> path, param |-> param, value |-> value, tokens |-> tokens]

PlainUrl(target) == Url(target, "", Undef, "", {})

NoPending == [productId |-> Undef, returnTo |-> Undef]

BaseResp ==
  [browser |-> "-", handler |-> "none", status |-> 0, redirect |-> {},
   cookies |-> {}, bodyTokens |-> {}, bodyUser |-> {}, valid |-> FALSE,
   error |-> "", pending |-> NoPending, hadPending |-> FALSE, minted |-> {},
   calls |-> 0, answer |-> "n/a", prior |-> 0, priorConsumed |-> 0, reqTokens |-> {},
   user |-> {}, at |-> 0, via |-> "none",
   req |-> [authorization |-> {}, query |-> {}, cookieToken |-> {},
            cookieAccessToken |-> {}],
   cleared |-> <<>>, returnTo |-> Undef, destroyed |-> FALSE, global |-> FALSE,
   query |-> NoPending, sent |-> {}]

EmptySession ==
  [productId |-> Undef, returnTo |-> Undef, user |-> {}, accessToken |-> {},
   authenticated |-> FALSE, loginTime |-> {}]

\* A GET /auth/callback request the server has begun to serve: the browser,
\* the req.session object express-session loaded for it and req.oidc.user as
\* the request's own cookies give it. A free slot holds IdleRequest.
Slots == {1, 2}

IdleRequest == [stage |-> "idle", browser |-> "-", sess |-> EmptySession, user |-> {}]

\* A request whose handler is followed statement by statement: the route,
\* the place the handler has reached, the number of responses sent so far,
\* whether a req.session.destroy callback is still to come, and what the
\* request carries (an IdP session or not, the pending productId, the token)
IdleHandling ==
  [route |-> "none", pc |-> "idle", sent |-> 0, destroying |-> FALSE,
   authed |-> FALSE, productId |-> Undef, token |-> {}]

\* The session-store modules: whether REDIS_URL is set and the redis packages
\* load, the module variable redisClient of config/database.js ("null", or
\* the state of the client's connection), whether an initializeRedis call is
\* waiting for connect(), what the last initializeRedis call returned, what
\* getSessionStore returned since, what createSessionStore returned and the
\* connection of the client it created
IdleStore ==
  [REDIS_URL |-> FALSE, packages |-> TRUE, redisClient |-> "null",
   initializing |-> FALSE, initReturned |-> "none", got |-> "none",
   created |-> "none", createdClient |-> "none"]

\* sessionConfig.cookie.maxAge, in seconds
SessionMaxAge == OneDay

\* The instant the browser's session cookie expires, 0 when it holds none
\* that matters. express-session sends the cookie again, with expires =
\* now + maxAge, when the response ends and the handler has changed
\* req.session (rolling is off). An empty session is the one every request
\* without a live cookie starts from, so its expiry is not tracked.
sessionCookieAfter(expires, loaded, final, now) ==
  IF final = EmptySession THEN 0
  ELSE IF final # loaded THEN now + SessionMaxAge
  ELSE expires

\* the session middleware around a handler serving browser b
sessionTouch(b) ==
  sessionCookie' = [sessionCookie EXCEPT ![b] =
                      sessionCookieAfter(@, session[b], session'[b], clock)]

\* the session a browser's requests reach at instant now: none of the old
\* one once the cookie has expired
sessionExpire(sess, expires, now) ==
  IF expires # 0 /\ now >= expires THEN EmptySession ELSE sess

\* what the world has seen of a token: the handler that handed it out, the
\* browser it went to and the clock value of the hand-out
Issue(token, by, b) == [token |-> token, by |-> by, to |-> b, at |-> clock]

\* process.env.JWT_SECRET / SSO_GATEWAY_SECRET as key names
EnvJwtSecret == IF env.JWT_SECRET THEN "JWT_SECRET" ELSE Undef

EnvGatewaySecret == IF env.SSO_GATEWAY_SECRET THEN "SSO_GATEWAY_SECRET" ELSE Undef

IsProduction == env.NODE_ENV = "production"

-----------------------------------------------------------------------------
(* Token minting *)

\* middleware/auth.js generateToken: no fallback secret
generateToken(payload, now) ==
  JwtSign(payload, EnvJwtSecret, [expiresIn |-> OneDay, issuer |-> "sso-gateway"], now)

\* routes/auth.js (first draft) generateToken: falls back to 'default-secret-key'
generateTokenDraft1(payload, now) ==
  JwtSign(payload,
          IF env.JWT_SECRET THEN "JWT_SECRET" ELSE "default-secret-key",
          [expiresIn |-> OneDay, issuer |-> "sso-gateway"], now)

\* tokenPayload reading the roles and permissions under the wrong keys
tokenPayloadPlainKeys(user, productId) ==
  [sub |-> Get(user, "sub"),
   email |-> Get(user, "email"),
   name |-> Get(user, "name"),
   picture |-> Get(user, "picture"),
   roles |-> OrEmptyList(user, "roles"),
   permissions |-> OrEmptyList(user, "permissions"),
   productId |-> productId]

\* The tokenPayload object literal of the callback
tokenPayload(user, productId) ==
  [sub |-> Get(user, "sub"),
   email |-> Get(user, "email"),
   name |-> Get(user, "name"),
   picture |-> Get(user, "picture"),
   roles |-> OrEmptyList(user, RolesKey),
   permissions |-> OrEmptyList(user, PermissionsKey),
   productId |-> productId]

-----------------------------------------------------------------------------
(* Product tables and the back-channel handoff *)

\* getProductRedirectUrl falling back to the productId the caller gave
getProductRedirectUrlCallerFallback(productId, accessToken) ==
  LET baseUrl == CASE productId = "product1" -> "http://localhost:3001"
                   [] productId = "product2" -> "http://localhost:3002"
                   [] productId = "product3" -> "http://localhost:3003"
                   [] productId = "pluriell" -> "https://pluriell.receipt-flow.io.vn"
                   [] productId = "receipt" -> "https://receipt-flow.io.vn"
                   [] OTHER -> productId
  IN Url(baseUrl, "/auth/sso-callback", "token", "", {accessToken})

\* getProductRedirectUrl: productUrls[productId] || BASE_URL, then the
\* SSO-callback path with the token as query parameter
getProductRedirectUrl(productId, accessToken) ==
  LET baseUrl == CASE productId = "product1" -> "http://localhost:3001"
                   [] productId = "product2" -> "http://localhost:3002"
                   [] productId = "product3" -> "http://localhost:3003"
                   [] productId = "pluriell" -> "https://pluriell.receipt-flow.io.vn"
                   [] productId = "receipt" -> "https://receipt-flow.io.vn"
                   [] OTHER -> BASE_URL
  IN Url(baseUrl, "/auth/sso-callback", "token", "", {accessToken})

\* getProductConfig: the products configured for back-channel delivery; the
\* empty set stands for configs[productId] being undefined
getProductConfig(productId) ==
  CASE productId = "pluriell" ->
         {[baseUrl |-> IF IsProduction THEN "https://pluriell.receipt-flow.io.vn"
                                       ELSE "http://localhost:3002",
           audience |-> "pluriell-api"]}
    [] productId = "receipt" ->
         {[baseUrl |-> IF IsProduction THEN "https://receipt.receipt-flow.io.vn"
                                       ELSE "http://localhost:3001",
           audience |-> "receipt-api"]}
    [] OTHER -> {}

\* generateProductToken: jwt.sign({...userPayload, aud, iss}, JWT_SECRET, {expiresIn: '1h'})
generateProductToken(userPayload, productConfig, now) ==
  JwtSign([aud |-> productConfig.audience, iss |-> "sso-gateway"] @@ userPayload,
          EnvJwtSecret, [expiresIn |-> OneHour], now)

\* createJWS: jwt.sign(payload, SSO_GATEWAY_SECRET, {algorithm: 'HS256', expiresIn: '5m'})
createJWS(payload, now) ==
  JwtSign(payload, EnvGatewaySecret, [expiresIn |-> FiveMinutes], now)

HandoffFailure(message, calls, sent) ==
  [success |-> FALSE, redirectUrl |-> {}, error |-> message, calls |-> calls, sent |-> sent]

\* performBackChannelHandoff. oneTimeCode is the value crypto.randomBytes
\* returns and answer is what the product's session endpoint answers when it
\* is called; every throw inside the try block ends in the catch block's
\* {success: false}. calls counts the axios.post calls made, sent holds the
\* tokens put on the server-to-server call.
performBackChannelHandoff(productId, userPayload, returnTo, now, oneTimeCode, answer) ==
  LET productConfig == getProductConfig(productId) IN
  IF productConfig = {}
    THEN HandoffFailure("Unknown product", 0, {})
  ELSE
    LET cfg == CHOOSE c \in productConfig : TRUE
        productToken == generateProductToken(userPayload, cfg, now)
    IN IF ~productToken.ok
         THEN HandoffFailure(productToken.error, 0, {})
       ELSE
         LET jws == createJWS([token |-> TheToken(productToken),
                               user |-> userPayload,
                               code |-> oneTimeCode,
                               exp |-> now + FiveMinutes,
                               iss |-> "sso-gateway",
                               aud |-> cfg.audience], now)
         IN IF ~jws.ok
              THEN HandoffFailure(jws.error, 0, {})
            ELSE IF answer = "200-success"
              THEN [success |-> TRUE,
                    redirectUrl |-> {Url(cfg.baseUrl, "/auth/callback", "code", oneTimeCode, {})},
                    error |-> "", calls |-> 1, sent |-> jws.tokens]
            ELSE HandoffFailure("Product session creation failed", 1, jws.tokens)

-----------------------------------------------------------------------------
(* GET /auth/callback *)

Cookie(name, tokens, options) == [name |-> name, tokens |-> tokens] @@ options

\* res.cookie and res.clearCookie default the path to '/'
PathOf(cookie) == IF cookie.path = Undef THEN "/" ELSE cookie.path

\* what a browser keys a cookie by: name, domain (Undef for a host-only
\* cookie) and path
KeyOf(cookie) == <<cookie.name, cookie.domain, PathOf(cookie)>>

\* the cookie jar of a browser after the Set-Cookie headers of a response: a
\* cookie replaces the one stored under the same key
Stored(held, cookies) ==
  {c \in held : \A n \in cookies : KeyOf(n) # KeyOf(c)} \cup cookies

\* callbackCookieOptions with the cookie left readable by scripts
callbackCookieOptionsClientVisible ==
  [httpOnly |-> FALSE,
   secure |-> IsProduction,
   sameSite |-> IF IsProduction THEN "None" ELSE "lax",
   maxAge |-> OneDay * 1000,
   path |-> "/",
   domain |-> IF IsProduction THEN ".receipt-flow.io.vn" ELSE Undef]

\* cookieOptions of the callback
callbackCookieOptions ==
  [httpOnly |-> TRUE,
   secure |-> IsProduction,
   sameSite |-> IF IsProduction THEN "None" ELSE "lax",
   maxAge |-> OneDay * 1000,
   path |-> "/",
   domain |-> IF IsProduction THEN ".receipt-flow.io.vn" ELSE Undef]

\* cookie options of the first draft's callback
callbackCookieOptionsDraft1 ==
  [httpOnly |-> TRUE,
   secure |-> IsProduction,
   sameSite |-> IF IsProduction THEN "none" ELSE "lax",
   maxAge |-> OneDay * 1000,
   path |-> Undef,
   domain |-> Undef]

\* clearPending with the second delete forgotten
clearPendingKeepsReturnTo(sess) == [sess EXCEPT !.productId = Undef]

\* delete req.session.productId; delete req.session.returnTo
clearPending(sess) == [sess EXCEPT !.productId = Undef, !.returnTo = Undef]

\* storeAuthenticated leaving the token out of the session
storeAuthenticatedWithoutToken(sess, payload, accessToken, now) ==
  clearPending([sess EXCEPT !.user = {payload},
                            !.authenticated = TRUE,
                            !.loginTime = {now}])

\* storeAuthenticated leaving the pending login in the session
storeAuthenticatedKeepsPending(sess, payload, accessToken, now) ==
  [sess EXCEPT !.user = {payload},
               !.accessToken = {accessToken},
               !.authenticated = TRUE,
               !.loginTime = {now}]

\* the session write of the callback, then the clearing of the pending login
storeAuthenticated(sess, payload, accessToken, now) ==
  clearPending([sess EXCEPT !.user = {payload},
                            !.accessToken = {accessToken},
                            !.authenticated = TRUE,
                            !.loginTime = {now}])

\* handoffFailedRedirect without the error indicator
handoffFailedRedirectSilent(returnTo) == Url(returnTo, "", Undef, "", {})

\* res.redirect(`${returnTo}?error=handoff_failed`)
handoffFailedRedirect(returnTo) == Url(returnTo, "", "error", "handoff_failed", {})

\* callbackError sending the browser on to a product without a token
callbackErrorRedirects(r) ==
  [r EXCEPT !.status = 302,
            !.redirect = {Url(BASE_URL, "/auth/sso-callback", "token", "", {})}]

\* the outer catch block: 500 with a JSON error
callbackError(r) ==
  [r EXCEPT !.status = 500, !.error = "Authentication callback failed"]

\* requiresAuth() on a request without an IdP session (as the test setup
\* defines it: 401 with a JSON error; the handler does not run)
requiresAuthRejects(b, handler) ==
  [BaseResp EXCEPT !.browser = b, !.handler = handler, !.status = 401,
                   !.error = "Authentication required"]

\* the response of the callback once the token is minted and stored
callbackDelivery(r, productId, payload, returnTo, accessToken, now, oneTimeCode, answer) ==
  LET withCookie == [r EXCEPT !.status = 302,
                              !.minted = {accessToken},
                              !.cookies = {Cookie("access_token", {accessToken},
                                                  callbackCookieOptions)}]
  IN IF productId # Undef
       THEN LET handoffResult ==
                  performBackChannelHandoff(productId, payload, returnTo, now,
                                            oneTimeCode, answer)
            IN [withCookie EXCEPT
                  !.calls = handoffResult.calls,
                  !.sent = handoffResult.sent,
                  !.answer = IF getProductConfig(productId) # {} THEN answer ELSE "n/a",
                  !.redirect = IF handoffResult.success
                                 THEN handoffResult.redirectUrl
                                 ELSE {handoffFailedRedirect(returnTo)}]
       ELSE [withCookie EXCEPT !.redirect = {PlainUrl(returnTo)}]

Callback(b, oneTimeCode, answer) ==
  /\ env.draft = 2
  /\ steps < MaxSteps
  /\ steps' = steps + 1
  /\ IF oidc[b] = {}
       THEN /\ resp' = requiresAuthRejects(b, "callback")
            /\ UNCHANGED <<session, issued, completed>>
       ELSE
         LET user == CHOOSE u \in oidc[b] : TRUE
             productId == session[b].productId
             returnTo == IF session[b].returnTo = Undef THEN "/" ELSE session[b].returnTo
             payload == tokenPayload(user, productId)
             signed == generateToken(payload, clock)
             r == [BaseResp EXCEPT !.browser = b, !.handler = "callback",
                                   !.user = {user},
                                   !.pending = [productId |-> productId,
                                                returnTo |-> session[b].returnTo],
                                   !.hadPending = session[b].returnTo # Undef,
                                   !.prior = completed[b].callbacks,
                                   !.priorConsumed = completed[b].consumed]
         IN IF ~signed.ok
              THEN /\ resp' = callbackError(r)
                   /\ UNCHANGED <<session, issued, completed>>
              ELSE /\ resp' = callbackDelivery(r, productId, payload, returnTo,
                                               TheToken(signed), clock, oneTimeCode, answer)
                   /\ session' = [session EXCEPT ![b] =
                                    storeAuthenticated(session[b], payload,
                                                       TheToken(signed), clock)]
                   /\ issued' = issued \cup {Issue(TheToken(signed), "callback", b)}
                   /\ completed' = [completed EXCEPT ![b] =
                                      [callbacks |-> @.callbacks + 1,
                                       consumed |-> @.consumed +
                                         (IF session[b].returnTo # Undef THEN 1 ELSE 0)]]
  /\ UNCHANGED <<env, clock, oidc>>
  /\ jar' = [jar EXCEPT ![b] = Stored(@, resp'.cookies)]
  /\ UNCHANGED inflight
  /\ sessionTouch(b)
  /\ UNCHANGED <<handling, store>>

\* GET /auth/callback of the first draft: cookie, then the product's
\* SSO-callback URL with the token, or returnTo
CallbackDraft1(b) ==
  /\ env.draft = 1
  /\ steps < MaxSteps
  /\ steps' = steps + 1
  /\ IF oidc[b] = {}
       THEN /\ resp' = requiresAuthRejects(b, "callback")
            /\ UNCHANGED <<session, issued, completed>>
       ELSE
         LET user == CHOOSE u \in oidc[b] : TRUE
             productId == session[b].productId
             returnTo == IF session[b].returnTo = Undef THEN "/" ELSE session[b].returnTo
             payload == tokenPayload(user, productId)
             signed == generateTokenDraft1(payload, clock)
             r == [BaseResp EXCEPT !.browser = b, !.handler = "callback",
                                   !.user = {user},
                                   !.pending = [productId |-> productId,
                                                returnTo |-> session[b].returnTo],
                                   !.hadPending = session[b].returnTo # Undef,
                                   !.prior = completed[b].callbacks,
                                   !.priorConsumed = completed[b].consumed]
         IN IF ~signed.ok
              THEN /\ resp' = callbackError(r)
                   /\ UNCHANGED <<session, issued, completed>>
              ELSE /\ resp' = [r EXCEPT
                        !.status = 302,
                        !.minted = signed.tokens,
                        !.cookies = {Cookie("access_token", signed.tokens,
                                            callbackCookieOptionsDraft1)},
                        !.redirect = IF productId # Undef
                                       THEN {getProductRedirectUrl(productId, TheToken(signed))}
                                       ELSE {PlainUrl(returnTo)}]
                   /\ session' = [session EXCEPT ![b] = clearPending(session[b])]
                   /\ issued' = issued \cup {Issue(TheToken(signed), "callback", b)}
                   /\ completed' = [completed EXCEPT ![b] =
                                      [callbacks |-> @.callbacks + 1,
                                       consumed |-> @.consumed +
                                         (IF session[b].returnTo # Undef THEN 1 ELSE 0)]]
  /\ UNCHANGED <<env, clock, oidc>>
  /\ jar' = [jar EXCEPT ![b] = Stored(@, resp'.cookies)]
  /\ UNCHANGED inflight
  /\ sessionTouch(b)
  /\ UNCHANGED <<handling, store>>

-----------------------------------------------------------------------------
(* GET /auth/callback as the session middleware serves it: express-session *)
(* reads the session from the store into req.session when the request      *)
(* arrives and writes req.session back when the response ends, if the      *)
(* handler changed it (resave: false). The handler itself never waits on    *)
(* I/O: createJWS throws before axios.post is reached.                      *)

\* the store after the response ended: req.session is written back whole if
\* it differs from what was loaded
sessionSave(stored, loaded, final) == IF final # loaded THEN final ELSE stored

\* the request arrives: session(sessionConfig) loads req.session, auth(config)
\* sets req.oidc from the request's cookies
CallbackBegin(r, b) ==
  /\ steps < MaxSteps
  /\ steps' = steps + 1
  /\ inflight[r].stage = "idle"
  /\ inflight' = [inflight EXCEPT ![r] =
                    [stage |-> "loaded", browser |-> b, sess |-> session[b],
                     user |-> oidc[b]]]
  /\ UNCHANGED <<env, clock, oidc, session, issued, resp, completed, jar>>
  /\ UNCHANGED sessionCookie
  /\ UNCHANGED <<handling, store>>

\* requiresAuth() and the handler of the current version run on the loaded
\* req.session; the response ends and the session is written back
CallbackHandle(r, oneTimeCode, answer) ==
  LET b == inflight[r].browser
      sess == inflight[r].sess
  IN
  /\ env.draft = 2
  /\ steps < MaxSteps
  /\ steps' = steps + 1
  /\ inflight[r].stage = "loaded"
  /\ inflight' = [inflight EXCEPT ![r] = IdleRequest]
  /\ IF inflight[r].user = {}
       THEN /\ resp' = requiresAuthRejects(b, "callback")
            /\ UNCHANGED <<session, issued, completed>>
       ELSE
         LET user == CHOOSE u \in inflight[r].user : TRUE
             productId == sess.productId
             returnTo == IF sess.returnTo = Undef THEN "/" ELSE sess.returnTo
             payload == tokenPayload(user, productId)
             signed == generateToken(payload, clock)
             q == [BaseResp EXCEPT !.browser = b, !.handler = "callback",
                                   !.user = {user},
                                   !.pending = [productId |-> productId,
                                                returnTo |-> sess.returnTo],
                                   !.hadPending = sess.returnTo # Undef,
                                   !.prior = completed[b].callbacks,
                                   !.priorConsumed = completed[b].consumed]
         IN IF ~signed.ok
              THEN /\ resp' = callbackError(q)
                   /\ UNCHANGED <<session, issued, completed>>
              ELSE /\ resp' = callbackDelivery(q, productId, payload, returnTo,
                                               TheToken(signed), clock, oneTimeCode, answer)
                   /\ session' = [session EXCEPT ![b] =
                                    sessionSave(@, sess,
                                                storeAuthenticated(sess, payload,
                                                                   TheToken(signed), clock))]
                   /\ issued' = issued \cup {Issue(TheToken(signed), "callback", b)}
                   /\ completed' = [completed EXCEPT ![b] =
                                      [callbacks |-> @.callbacks + 1,
                                       consumed |-> @.consumed +
                                         (IF sess.returnTo # Undef THEN 1 ELSE 0)]]
  /\ UNCHANGED <<env, clock, oidc>>
  /\ jar' = [jar EXCEPT ![b] = Stored(@, resp'.cookies)]
  /\ sessionTouch(b)
  /\ UNCHANGED <<handling, store>>

\* the same for the first draft's handler
CallbackHandleDraft1(r) ==
  LET b == inflight[r].browser
      sess == inflight[r].sess
  IN
  /\ env.draft = 1
  /\ steps < MaxSteps
  /\ steps' = steps + 1
  /\ inflight[r].stage = "loaded"
  /\ inflight' = [inflight EXCEPT ![r] = IdleRequest]
  /\ IF inflight[r].user = {}
       THEN /\ resp' = requiresAuthRejects(b, "callback")
            /\ UNCHANGED <<session, issued, completed>>
       ELSE
         LET user == CHOOSE u \in inflight[r].user : TRUE
             productId == sess.productId
             returnTo == IF sess.returnTo = Undef THEN "/" ELSE sess.returnTo
             payload == tokenPayload(user, productId)
             signed == generateTokenDraft1(payload, clock)
             q == [BaseResp EXCEPT !.browser = b, !.handler = "callback",
                                   !.user = {user},
                                   !.pending = [productId |-> productId,
                                                returnTo |-> sess.returnTo],
                                   !.hadPending = sess.returnTo # Undef,
                                   !.prior = completed[b].callbacks,
                                   !.priorConsumed = completed[b].consumed]
         IN IF ~signed.ok
              THEN /\ resp' = callbackError(q)
                   /\ UNCHANGED <<session, issued, completed>>
              ELSE /\ resp' = [q EXCEPT
                        !.status = 302,
                        !.minted = signed.tokens,
                        !.cookies = {Cookie("access_token", signed.tokens,
                                            callbackCookieOptionsDraft1)},
                        !.redirect = IF productId # Undef
                                       THEN {getProductRedirectUrl(productId, TheToken(signed))}
                                       ELSE {PlainUrl(returnTo)}]
                   /\ session' = [session EXCEPT ![b] =
                                    sessionSave(@, sess, clearPending(sess))]
                   /\ issued' = issued \cup {Issue(TheToken(signed), "callback", b)}
                   /\ completed' = [completed EXCEPT ![b] =
                                      [callbacks |-> @.callbacks + 1,
                                       consumed |-> @.consumed +
                                         (IF sess.returnTo # Undef THEN 1 ELSE 0)]]
  /\ UNCHANGED <<env, clock, oidc>>
  /\ jar' = [jar EXCEPT ![b] = Stored(@, resp'.cookies)]
  /\ sessionTouch(b)
  /\ UNCHANGED <<handling, store>>

\* The IdP authenticates the user and the OIDC middleware establishes the
\* IdP session of the browser (req.oidc.user); the IdP issues its own access
\* token for AUTH0_AUDIENCE
IdpAuthenticate(b, user) ==
  /\ steps < MaxSteps
  /\ steps' = steps + 1
  /\ oidc' = [oidc EXCEPT ![b] = {user}]
  /\ issued' = issued \cup {Issue(IdpToken(user, clock), "idp", b)}
  /\ resp' = [BaseResp EXCEPT !.browser = b, !.handler = "idp", !.status = 302,
                !.redirect = {PlainUrl("/")}]
  /\ UNCHANGED <<env, clock, session, completed, jar, inflight>>
  /\ UNCHANGED sessionCookie
  /\ UNCHANGED <<handling, store>>

-----------------------------------------------------------------------------
(* Token validation *)

\* A request as far as token extraction reads it: the bearer token of the
\* Authorization header, query.token, cookies.token and cookies.access_token
Request(place, tokens) ==
  [authorization |-> IF place = "header" THEN tokens ELSE {},
   query |-> IF place = "query" THEN tokens ELSE {},
   cookieToken |-> IF place = "cookie:token" THEN tokens ELSE {},
   cookieAccessToken |-> IF place = "cookie:access_token" THEN tokens ELSE {}]

Places == {"header", "query", "cookie:token", "cookie:access_token"}

\* A request carrying tokens in two places
Request2(place1, tokens1, place2, tokens2) ==
  LET a == Request(place1, tokens1)
      c == Request(place2, tokens2)
  IN [authorization |-> a.authorization \cup c.authorization,
      query |-> a.query \cup c.query,
      cookieToken |-> a.cookieToken \cup c.cookieToken,
      cookieAccessToken |-> a.cookieAccessToken \cup c.cookieAccessToken]

\* extractToken: Authorization header, else query.token, else cookies.token
extractToken(req) ==
  IF req.authorization # {} THEN req.authorization
  ELSE IF req.query # {} THEN req.query
  ELSE IF req.cookieToken # {} THEN req.cookieToken
  ELSE {}

VerifyError(name) == [ok |-> FALSE, name |-> name, payload |-> {}]

\* JwtVerify taking a token for expired one second before its exp
JwtVerifyExpiresEarly(token, key, algorithms, audience, issuer, now) ==
  IF token.fmt # "jwt" THEN VerifyError("JsonWebTokenError")
  ELSE IF key = Undef THEN VerifyError("JsonWebTokenError")
  ELSE IF token.alg \notin algorithms THEN VerifyError("JsonWebTokenError")
  ELSE IF token.key # key THEN VerifyError("JsonWebTokenError")
  ELSE IF "exp" \in DOMAIN token.payload /\ now >= token.payload.exp - 1
    THEN VerifyError("TokenExpiredError")
  ELSE IF audience # Undef /\ Get(token.payload, "aud") # audience
    THEN VerifyError("JsonWebTokenError")
  ELSE IF issuer # Undef /\ Get(token.payload, "iss") # issuer
    THEN VerifyError("JsonWebTokenError")
  ELSE [ok |-> TRUE, name |-> "", payload |-> {token.payload}]

\* jwt.verify(token, key, options): key is the name of the key (Undef when
\* not set), algorithms the accepted algorithms, audience and issuer the
\* expected values (Undef when the option is not given). The checks run in
\* jsonwebtoken's order: format, key, algorithm, signature, exp, aud, iss.
JwtVerify(token, key, algorithms, audience, issuer, now) ==
  IF token.fmt # "jwt" THEN VerifyError("JsonWebTokenError")
  ELSE IF key = Undef THEN VerifyError("JsonWebTokenError")
  ELSE IF token.alg \notin algorithms THEN VerifyError("JsonWebTokenError")
  ELSE IF token.key # key THEN VerifyError("JsonWebTokenError")
  ELSE IF "exp" \in DOMAIN token.payload /\ now >= token.payload.exp
    THEN VerifyError("TokenExpiredError")
  ELSE IF audience # Undef /\ Get(token.payload, "aud") # audience
    THEN VerifyError("JsonWebTokenError")
  ELSE IF issuer # Undef /\ Get(token.payload, "iss") # issuer
    THEN VerifyError("JsonWebTokenError")
  ELSE [ok |-> TRUE, name |-> "", payload |-> {token.payload}]

Rejected(status, error) == [pass |-> FALSE, status |-> status, error |-> error, payload |-> {}]

\* verifyAuth0Token trusting the decoded token without jwt.verify
verifyAuth0TokenDecodeOnly(req, now) ==
  LET found == extractToken(req) IN
  IF found = {} THEN Rejected(401, "Access token is required")
  ELSE
    LET token == CHOOSE t \in found : TRUE IN
    IF token.fmt # "jwt" \/ token.kid = Undef
      THEN Rejected(401, "Invalid token format")
    ELSE IF token.kid # "auth0-kid"
      THEN Rejected(401, "Token verification failed")
    ELSE [pass |-> TRUE, status |-> 200, error |-> "", payload |-> {token.payload}]

\* verifyAuth0Token: the token must carry a kid known to the IdP's JWKS and
\* verify as an RS256 token of the IdP for AUTH0_AUDIENCE
verifyAuth0Token(req, now) ==
  LET found == extractToken(req) IN
  IF found = {} THEN Rejected(401, "Access token is required")
  ELSE
    LET token == CHOOSE t \in found : TRUE IN
    IF token.fmt # "jwt" \/ token.kid = Undef
      THEN Rejected(401, "Invalid token format")
    ELSE IF token.kid # "auth0-kid"
      THEN Rejected(401, "Token verification failed")
    ELSE
      LET v == JwtVerify(token, "auth0-signing-key", {"RS256"},
                         "AUTH0_AUDIENCE", "https://AUTH0_DOMAIN/", now)
      IN IF v.ok THEN [pass |-> TRUE, status |-> 200, error |-> "", payload |-> v.payload]
         ELSE IF v.name = "TokenExpiredError" THEN Rejected(401, "Token expired")
         ELSE Rejected(401, "Invalid token")

\* verifyCustomToken refusing every token once no browser holds an IdP
\* session
verifyCustomTokenSessionBound(req, now) ==
  LET found == extractToken(req) IN
  IF found = {} THEN Rejected(401, "Access token is required")
  ELSE IF \A b \in DOMAIN oidc : oidc[b] = {} THEN Rejected(401, "Session ended")
  ELSE
    LET token == CHOOSE t \in found : TRUE
        v == JwtVerify(token, EnvJwtSecret, {"HS256", "HS384", "HS512"}, Undef, Undef, now)
    IN IF ~v.ok
         THEN IF v.name = "TokenExpiredError" THEN Rejected(401, "Token expired")
              ELSE Rejected(401, "Invalid token")
       ELSE
         LET payload == CHOOSE q \in v.payload : TRUE IN
         IF /\ Get(payload, "productId") = "pluriell"
            /\ (Get(payload, "sub") = Undef \/ Get(payload, "email") = Undef)
           THEN Rejected(401, "Invalid token structure for Pluriell")
           ELSE [pass |-> TRUE, status |-> 200, error |-> "", payload |-> v.payload]

\* verifyCustomToken: jwt.verify(token, JWT_SECRET) with no options, then the
\* Pluriell structure check
verifyCustomToken(req, now) ==
  LET found == extractToken(req) IN
  IF found = {} THEN Rejected(401, "Access token is required")
  ELSE
    LET token == CHOOSE t \in found : TRUE
        v == JwtVerify(token, EnvJwtSecret, {"HS256", "HS384", "HS512"}, Undef, Undef, now)
    IN IF ~v.ok
         THEN IF v.name = "TokenExpiredError" THEN Rejected(401, "Token expired")
              ELSE Rejected(401, "Invalid token")
       ELSE
         LET payload == CHOOSE q \in v.payload : TRUE IN
         IF /\ Get(payload, "productId") = "pluriell"
            /\ (Get(payload, "sub") = Undef \/ Get(payload, "email") = Undef)
           THEN Rejected(401, "Invalid token structure for Pluriell")
           ELSE [pass |-> TRUE, status |-> 200, error |-> "", payload |-> v.payload]

\* requireAuth: an IdP session passes; else a token goes to verifyAuth0Token;
\* else 401
requireAuth(b, req, now) ==
  IF oidc[b] # {} THEN [pass |-> TRUE, status |-> 200, error |-> "", payload |-> {}]
  ELSE IF extractToken(req) # {} THEN verifyAuth0Token(req, now)
  ELSE Rejected(401, "Authentication required")

\* the user object of the validate-token answer
validatedUser(user) ==
  [id |-> Get(user, "sub"),
   email |-> Get(user, "email"),
   name |-> Get(user, "name"),
   picture |-> Get(user, "picture"),
   roles |-> IF RolesKey \in DOMAIN user THEN user[RolesKey]
             ELSE OrEmptyList(user, "roles"),
   permissions |-> IF PermissionsKey \in DOMAIN user THEN user[PermissionsKey]
                   ELSE OrEmptyList(user, "permissions"),
   productId |-> Get(user, "productId")]

\* the tokens a client may present: every token issued so far, or a string
\* that is no token
Presentable == {i.token : i \in issued} \cup {Garbage}

\* well-formed tokens that neither the broker nor the IdP signed
Forgeries == {Forged, ForgedIdp}

\* the pairs of places of a request carrying two tokens
PlacePairs ==
  {<<"header", "cookie:access_token">>, <<"header", "cookie:token">>,
   <<"header", "query">>, <<"cookie:access_token", "cookie:token">>,
   <<"cookie:access_token", "query">>, <<"cookie:token", "query">>}

\* the requests a client may send to a token-protected endpoint with a
\* token in one place
Requests == {Request(w, {t}) : w \in Places, t \in Presentable}

\* the same with a forged bearer token
ForgedRequests == {Request("header", {t}) : t \in Forgeries}

\* the same with a token the broker minted in one place and another string
\* in a second
TwoTokenRequests ==
  {Request2(w[1], {i.token}, w[2], {Garbage}) :
     w \in PlacePairs, i \in {j \in issued : j.by # "idp"}}

\* POST /api/validate-token: body.token is moved to the Authorization header
\* and handed to verifyAuth0Token
ValidateToken(b, bodyToken) ==
  /\ steps < MaxSteps
  /\ steps' = steps + 1
  /\ LET r == [BaseResp EXCEPT !.browser = b, !.handler = "validate-token",
                               !.reqTokens = bodyToken, !.at = clock]
     IN IF bodyToken = {}
          THEN resp' = [r EXCEPT !.status = 400, !.error = "Token is required"]
          ELSE LET verdict == verifyAuth0Token(Request("header", bodyToken), clock)
               IN IF verdict.pass
                    THEN resp' = [r EXCEPT !.status = 200, !.valid = TRUE,
                                    !.via = "verifyAuth0Token",
                                    !.bodyUser = {validatedUser(u) : u \in verdict.payload}]
                    ELSE resp' = [r EXCEPT !.status = verdict.status,
                                           !.via = "verifyAuth0Token",
                                           !.error = verdict.error]
  /\ UNCHANGED <<env, clock, oidc, session, issued, completed, jar, inflight>>
  /\ UNCHANGED sessionCookie
  /\ UNCHANGED <<handling, store>>

\* ProductAuth without the productId check of the handlers
ProductAuthAnyProduct(b, product, req) ==
  /\ steps < MaxSteps
  /\ steps' = steps + 1
  /\ LET r == [BaseResp EXCEPT !.browser = b, !.handler = "product-auth",
                               !.req = req,
                               !.reqTokens = extractToken(req),
                               !.at = clock]
         verdict == verifyCustomToken(req, clock)
     IN IF ~verdict.pass
          THEN resp' = [r EXCEPT !.status = verdict.status, !.error = verdict.error]
          ELSE resp' = [r EXCEPT !.status = 200, !.user = verdict.payload]
  /\ UNCHANGED <<env, clock, oidc, session, issued, completed, jar, inflight>>
  /\ UNCHANGED sessionCookie
  /\ UNCHANGED <<handling, store>>

\* GET /api/pluriell/auth and GET /api/receipt/auth: verifyCustomToken, then
\* the productId of the token must be the endpoint's product
ProductAuth(b, product, req) ==
  /\ steps < MaxSteps
  /\ steps' = steps + 1
  /\ LET r == [BaseResp EXCEPT !.browser = b, !.handler = "product-auth",
                               !.req = req,
                               !.reqTokens = extractToken(req),
                               !.at = clock]
         verdict == verifyCustomToken(req, clock)
     IN IF ~verdict.pass
          THEN resp' = [r EXCEPT !.status = verdict.status, !.error = verdict.error]
          ELSE LET user == CHOOSE u \in verdict.payload : TRUE
               IN IF Get(user, "productId") # product
                    THEN resp' = [r EXCEPT !.status = 403,
                                    !.error = "This token is not authorized for the product",
                                    !.user = verdict.payload]
                    ELSE resp' = [r EXCEPT !.status = 200, !.user = verdict.payload]
  /\ UNCHANGED <<env, clock, oidc, session, issued, completed, jar, inflight>>
  /\ UNCHANGED sessionCookie
  /\ UNCHANGED <<handling, store>>

\* GET /api/test-token: jwt.sign of a fixed payload with JWT_SECRET,
\* expiresIn '1h' and issuer 'sso-gateway-test'; a throw of jwt.sign is
\* answered by the error handler
testToken(now) ==
  JwtSign([sub |-> "test-user", email |-> "test@example.com", name |-> "Test User",
           productId |-> "pluriell"],
          EnvJwtSecret, [expiresIn |-> OneHour, issuer |-> "sso-gateway-test"], now)

TestToken(b) ==
  /\ steps < MaxSteps
  /\ steps' = steps + 1
  /\ LET r == [BaseResp EXCEPT !.browser = b, !.handler = "test-token", !.at = clock]
         signed == testToken(clock)
     IN IF ~signed.ok
          THEN /\ resp' = [r EXCEPT !.status = 500, !.error = signed.error]
               /\ UNCHANGED issued
          ELSE /\ resp' = [r EXCEPT !.status = 200, !.minted = signed.tokens,
                                    !.bodyTokens = signed.tokens]
               /\ issued' = issued \cup {Issue(TheToken(signed), "test-token", b)}
  /\ UNCHANGED <<env, clock, oidc, session, completed, jar, inflight>>
  /\ UNCHANGED sessionCookie
  /\ UNCHANGED <<handling, store>>

\* the user object of the profile answer (keys that are undefined in every
\* user modelled here are left out)
profileUser(user) ==
  [id |-> Get(user, "sub"),
   email |-> Get(user, "email"),
   name |-> Get(user, "name"),
   picture |-> Get(user, "picture"),
   roles |-> IF RolesKey \in DOMAIN user THEN user[RolesKey]
             ELSE OrEmptyList(user, "roles"),
   permissions |-> IF PermissionsKey \in DOMAIN user THEN user[PermissionsKey]
                   ELSE OrEmptyList(user, "permissions")]

\* GET /user/profile: requireAuth, then req.oidc.user || req.user
UserProfile(b, bearer) ==
  /\ steps < MaxSteps
  /\ steps' = steps + 1
  /\ LET req == Request("header", bearer)
         r == [BaseResp EXCEPT !.browser = b, !.handler = "user-profile",
                               !.reqTokens = extractToken(req), !.at = clock,
                               !.via = IF oidc[b] # {} THEN "session" ELSE "token"]
         verdict == requireAuth(b, req, clock)
         user == oidc[b] \cup verdict.payload
     IN IF ~verdict.pass
          THEN resp' = [r EXCEPT !.status = verdict.status, !.error = verdict.error]
          ELSE resp' = [r EXCEPT !.status = 200, !.user = user,
                                 !.bodyUser = {profileUser(u) : u \in user}]
  /\ UNCHANGED <<env, clock, oidc, session, issued, completed, jar, inflight>>
  /\ UNCHANGED sessionCookie
  /\ UNCHANGED <<handling, store>>

-----------------------------------------------------------------------------
(* Session endpoints *)

\* POST /auth/token (both versions of the router): requiresAuth(), then a
\* token for the IdP user and the productId of the body
PostToken(b, productId) ==
  /\ steps < MaxSteps
  /\ steps' = steps + 1
  /\ IF oidc[b] = {}
       THEN /\ resp' = requiresAuthRejects(b, "token")
            /\ UNCHANGED issued
       ELSE
         LET user == CHOOSE u \in oidc[b] : TRUE
             payload == tokenPayload(user, productId)
             signed == IF env.draft = 1 THEN generateTokenDraft1(payload, clock)
                       ELSE generateToken(payload, clock)
             r == [BaseResp EXCEPT !.browser = b, !.handler = "token", !.at = clock,
                                   !.user = {user}]
         IN IF ~signed.ok
              THEN /\ resp' = [r EXCEPT !.status = 500, !.error = "Token generation failed"]
                   /\ UNCHANGED issued
              ELSE /\ resp' = [r EXCEPT !.status = 200, !.minted = signed.tokens,
                                        !.bodyTokens = signed.tokens,
                                        !.bodyUser = {payload}]
                   /\ issued' = issued \cup {Issue(TheToken(signed), "token", b)}
  /\ UNCHANGED <<env, clock, oidc, session, completed, jar, inflight>>
  /\ UNCHANGED sessionCookie
  /\ UNCHANGED <<handling, store>>

\* the tokenPayload literal of the session endpoints (no productId key)
sessionTokenPayload(user) ==
  [sub |-> Get(user, "sub"),
   email |-> Get(user, "email"),
   name |-> Get(user, "name"),
   picture |-> Get(user, "picture"),
   roles |-> OrEmptyList(user, RolesKey),
   permissions |-> OrEmptyList(user, PermissionsKey)]

\* GET /auth/session
SessionGet(b) ==
  /\ env.draft = 2
  /\ steps < MaxSteps
  /\ steps' = steps + 1
  /\ LET r == [BaseResp EXCEPT !.browser = b, !.handler = "session"]
         sess == session[b]
     IN IF oidc[b] # {}
          THEN LET user == CHOOSE u \in oidc[b] : TRUE
                   payload == sessionTokenPayload(user)
                   signed == generateToken(payload, clock)
               IN IF sess.accessToken # {}
                    THEN /\ resp' = [r EXCEPT !.status = 200,
                                       !.bodyTokens = sess.accessToken,
                                       !.bodyUser = IF sess.user # {} THEN sess.user
                                                    ELSE {[sub |-> Get(user, "sub"),
                                                           email |-> Get(user, "email"),
                                                           name |-> Get(user, "name"),
                                                           picture |-> Get(user, "picture")]}]
                         /\ UNCHANGED <<session, issued>>
                  ELSE IF ~signed.ok
                    THEN /\ resp' = [r EXCEPT !.status = 500,
                                              !.error = "Session retrieval failed"]
                         /\ UNCHANGED <<session, issued>>
                  ELSE /\ resp' = [r EXCEPT !.status = 200, !.minted = signed.tokens,
                                            !.bodyTokens = signed.tokens,
                                            !.bodyUser = {payload}]
                       /\ session' = [session EXCEPT ![b] =
                                        [sess EXCEPT !.accessToken = signed.tokens,
                                                     !.user = {payload}]]
                       /\ issued' = issued \cup {Issue(TheToken(signed), "session", b)}
        ELSE IF sess.authenticated /\ sess.user # {}
          THEN /\ resp' = [r EXCEPT !.status = 200, !.bodyTokens = sess.accessToken,
                                    !.bodyUser = sess.user]
               /\ UNCHANGED <<session, issued>>
        ELSE /\ resp' = [r EXCEPT !.status = 200]
             /\ UNCHANGED <<session, issued>>
  /\ UNCHANGED <<env, clock, oidc, completed, jar, inflight>>
  /\ sessionTouch(b)
  /\ UNCHANGED <<handling, store>>

\* tokenFromSessionCookieOptions with the secure flag never set
tokenFromSessionCookieOptionsInsecure ==
  [httpOnly |-> TRUE,
   secure |-> FALSE,
   sameSite |-> IF IsProduction THEN "None" ELSE "lax",
   maxAge |-> OneDay * 1000,
   path |-> "/",
   domain |-> IF IsProduction THEN ".receipt-flow.io.vn" ELSE Undef]

\* cookieOptions of GET /auth/token-from-session
tokenFromSessionCookieOptions ==
  [httpOnly |-> TRUE,
   secure |-> IsProduction,
   sameSite |-> IF IsProduction THEN "None" ELSE "lax",
   maxAge |-> OneDay * 1000,
   path |-> "/",
   domain |-> IF IsProduction THEN ".receipt-flow.io.vn" ELSE Undef]

\* GET /auth/token-from-session
TokenFromSession(b) ==
  /\ env.draft = 2
  /\ steps < MaxSteps
  /\ steps' = steps + 1
  /\ LET r == [BaseResp EXCEPT !.browser = b, !.handler = "token-from-session"]
         sess == session[b]
     IN IF sess.authenticated /\ sess.accessToken # {}
          THEN /\ resp' = [r EXCEPT !.status = 200, !.bodyTokens = sess.accessToken,
                                    !.bodyUser = sess.user]
               /\ UNCHANGED <<session, issued>>
        ELSE IF oidc[b] # {}
          THEN LET user == CHOOSE u \in oidc[b] : TRUE
                   payload == sessionTokenPayload(user)
                   signed == generateToken(payload, clock)
               IN IF ~signed.ok
                    THEN /\ resp' = [r EXCEPT !.status = 500,
                                       !.error = "Failed to retrieve token from session"]
                         /\ UNCHANGED <<session, issued>>
                    ELSE /\ resp' = [r EXCEPT !.status = 200, !.minted = signed.tokens,
                                       !.bodyTokens = signed.tokens,
                                       !.bodyUser = {payload},
                                       !.cookies = {Cookie("access_token", signed.tokens,
                                                           tokenFromSessionCookieOptions)}]
                         /\ session' = [session EXCEPT ![b] =
                                          [sess EXCEPT !.user = {payload},
                                                       !.accessToken = signed.tokens,
                                                       !.authenticated = TRUE,
                                                       !.loginTime = {clock}]]
                         /\ issued' = issued \cup
                                        {Issue(TheToken(signed), "token-from-session", b)}
        ELSE /\ resp' = [r EXCEPT !.status = 401,
                                  !.error = "No active session or authentication"]
             /\ UNCHANGED <<session, issued>>
  /\ UNCHANGED <<env, clock, oidc, completed>>
  /\ jar' = [jar EXCEPT ![b] = Stored(@, resp'.cookies)]
  /\ UNCHANGED inflight
  /\ sessionTouch(b)
  /\ UNCHANGED <<handling, store>>

-----------------------------------------------------------------------------
(* Logout *)

\* res.clearCookie(name, options) as the Set-Cookie header it sends
clearCookie(name, options) == [name |-> name] @@ options

\* res.clearCookie(name) without options (first draft)
noClearOptions ==
  [path |-> Undef, httpOnly |-> FALSE, secure |-> FALSE, sameSite |-> Undef,
   domain |-> Undef]

\* clearCookieOptions and auth0CookieOptions of GET /auth/logout, and
\* clearOptions of GET /auth/global-logout: the same literal in each place
clearCookieOptions ==
  [path |-> "/", httpOnly |-> TRUE, secure |-> TRUE, sameSite |-> "None",
   domain |-> ".receipt-flow.io.vn"]

\* the res.clearCookie calls of the first draft's GET /auth/logout, in order
logoutClearsDraft1 ==
  << clearCookie("access_token", noClearOptions),
     clearCookie("sso_token", noClearOptions),
     clearCookie("id_token", noClearOptions),
     clearCookie("auth_token", noClearOptions) >>

\* the res.clearCookie calls of GET /auth/logout, in order
logoutClears ==
  << clearCookie("access_token", clearCookieOptions),
     clearCookie("sso_token", clearCookieOptions),
     clearCookie("appSession", clearCookieOptions),
     clearCookie("appSession.0", clearCookieOptions),
     clearCookie("appSession.1", clearCookieOptions) >>

\* domains and cookieNames of GET /auth/global-logout
globalLogoutDomains == << ".receipt-flow.io.vn", "localhost" >>

globalLogoutCookieNames ==
  << "access_token", "sso_token", "appSession", "appSession.0", "appSession.1" >>

\* domains.forEach(domain => cookieNames.forEach(cookieName => ...)): the
\* clearOptions literal does not use the loop's domain
globalLogoutClears ==
  [i \in 1..(Len(globalLogoutDomains) * Len(globalLogoutCookieNames)) |->
     clearCookie(globalLogoutCookieNames[((i - 1) % Len(globalLogoutCookieNames)) + 1],
                 clearCookieOptions)]

\* the cookie jar of a browser after the clears of a response
Cleared(held, clears) ==
  {c \in held : \A i \in 1..Len(clears) : KeyOf(clears[i]) # KeyOf(c)}

\* res.oidc.logout({returnTo}): without an IdP session a redirect to
\* returnTo; with one, the session of the OIDC middleware is dropped and the
\* browser is sent to the IdP's logout URL, which carries returnTo
oidcLogoutRedirect(b, returnTo) ==
  IF oidc[b] # {}
    THEN Url("https://AUTH0_DOMAIN", "/v2/logout", "returnTo", returnTo, {})
    ELSE PlainUrl(returnTo)

\* req.query.returnTo || process.env.BASE_URL
logoutReturnTo(returnToQuery) == IF returnToQuery = Undef THEN BASE_URL ELSE returnToQuery

\* req.session.destroy(cb): the store drops the session, or fails and the
\* error is logged
sessionDestroy(sess, storeDestroys) == IF storeDestroys THEN EmptySession ELSE sess

\* GET /auth/logout
Logout(b, returnToQuery, storeDestroys) ==
  /\ env.draft = 2
  /\ steps < MaxSteps
  /\ steps' = steps + 1
  /\ resp' = [BaseResp EXCEPT !.browser = b, !.handler = "logout", !.status = 302,
                !.at = clock,
                !.user = oidc[b],
                !.cleared = logoutClears,
                !.returnTo = logoutReturnTo(returnToQuery),
                !.destroyed = storeDestroys,
                !.redirect = {oidcLogoutRedirect(b, logoutReturnTo(returnToQuery))}]
  /\ session' = [session EXCEPT ![b] = sessionDestroy(@, storeDestroys)]
  /\ oidc' = [oidc EXCEPT ![b] = {}]
  /\ jar' = [jar EXCEPT ![b] = Cleared(@, logoutClears)]
  /\ UNCHANGED inflight
  /\ UNCHANGED <<env, clock, issued, completed>>
  /\ sessionTouch(b)
  /\ UNCHANGED <<handling, store>>

\* GET /auth/logout of the first draft: no req.session.destroy; global=true
\* passes federated: true to res.oidc.logout
LogoutDraft1(b, returnToQuery, isGlobalLogout) ==
  /\ env.draft = 1
  /\ steps < MaxSteps
  /\ steps' = steps + 1
  /\ resp' = [BaseResp EXCEPT !.browser = b, !.handler = "logout", !.status = 302,
                !.at = clock,
                !.user = oidc[b],
                !.cleared = logoutClearsDraft1,
                !.returnTo = logoutReturnTo(returnToQuery),
                !.global = isGlobalLogout,
                !.redirect = {oidcLogoutRedirect(b, logoutReturnTo(returnToQuery))}]
  /\ oidc' = [oidc EXCEPT ![b] = {}]
  /\ jar' = [jar EXCEPT ![b] = Cleared(@, logoutClearsDraft1)]
  /\ UNCHANGED inflight
  /\ UNCHANGED <<env, clock, session, issued, completed>>
  /\ sessionTouch(b)
  /\ UNCHANGED <<handling, store>>

\* GET /auth/global-logout
GlobalLogout(b, returnToQuery, storeDestroys) ==
  /\ env.draft = 2
  /\ steps < MaxSteps
  /\ steps' = steps + 1
  /\ resp' = [BaseResp EXCEPT !.browser = b, !.handler = "global-logout", !.status = 302,
                !.at = clock,
                !.user = oidc[b],
                !.cleared = globalLogoutClears,
                !.returnTo = logoutReturnTo(returnToQuery),
                !.destroyed = storeDestroys,
                !.redirect = {IF oidc[b] # {}
                                THEN oidcLogoutRedirect(b, logoutReturnTo(returnToQuery))
                                ELSE PlainUrl(logoutReturnTo(returnToQuery))}]
  /\ session' = [session EXCEPT ![b] = sessionDestroy(@, storeDestroys)]
  /\ oidc' = [oidc EXCEPT ![b] = {}]
  /\ jar' = [jar EXCEPT ![b] = Cleared(@, globalLogoutClears)]
  /\ UNCHANGED inflight
  /\ UNCHANGED <<env, clock, issued, completed>>
  /\ sessionTouch(b)
  /\ UNCHANGED <<handling, store>>

-----------------------------------------------------------------------------
(* Time *)

\* The instants worth visiting: the next second, and the last second before
\* and the second of the expiry of every token issued
Instants ==
  {clock + 1} \cup UNION {{i.token.payload.exp - 1, i.token.payload.exp} : i \in issued}

Tick(t) ==
  /\ steps < MaxSteps
  /\ steps' = steps + 1
  /\ t > clock
  /\ clock' = t
  /\ session' = [b \in DOMAIN session |-> sessionExpire(session[b], sessionCookie[b], t)]
  /\ sessionCookie' = [b \in DOMAIN session |->
                         IF t >= sessionCookie[b] THEN 0 ELSE sessionCookie[b]]
  /\ UNCHANGED <<env, oidc, issued, resp, completed, jar, inflight>>
  /\ UNCHANGED <<handling, store>>

-----------------------------------------------------------------------------

Init ==
  \* the deployment: environment variables, and which version of
  \* routes/auth.js (first draft or current) serves /auth
  /\ env \in [NODE_ENV : {"production", "development"},
              JWT_SECRET : BOOLEAN,
              SSO_GATEWAY_SECRET : {TRUE},
              draft : {1, 2}]
  /\ clock = 0
  /\ oidc = [b \in Browsers |-> {}]
  /\ session = [b \in Browsers |-> EmptySession]
  /\ issued = {}
  /\ resp = BaseResp
  /\ steps = 0
  /\ completed = [b \in Browsers |-> [callbacks |-> 0, consumed |-> 0]]
  /\ jar = [b \in Browsers |-> {}]
  /\ inflight = [r \in Slots |-> IdleRequest]
  /\ sessionCookie = [b \in Browsers |-> 0]
  /\ handling = IdleHandling
  /\ store = IdleStore

\* storePending leaving returnTo as it was
storePendingKeepsReturnTo(sess, productId, returnToQuery) ==
  IF productId # Undef THEN [sess EXCEPT !.productId = productId] ELSE sess

\* the session writes of GET /auth/login: productId only if the query has
\* one, returnTo always (req.query.returnTo || '/')
storePending(sess, productId, returnToQuery) ==
  LET returnTo == IF returnToQuery = Undef THEN "/" ELSE returnToQuery
      withProduct == IF productId # Undef
                       THEN [sess EXCEPT !.productId = productId]
                       ELSE sess
  IN [withProduct EXCEPT !.returnTo = returnTo]

\* `${process.env.BASE_URL}/auth/callback`
loginRedirectUri == "https://sso.example/auth/callback"

\* GET /auth/login
Login(b, productId, returnToQuery) ==
     /\ steps < MaxSteps
     /\ steps' = steps + 1
     /\ session' = [session EXCEPT ![b] = storePending(@, productId, returnToQuery)]
     /\ resp' = [BaseResp EXCEPT !.browser = b, !.handler = "login", !.status = 302,
                   !.query = [productId |-> productId, returnTo |-> returnToQuery],
                   !.redirect = {Url("https://AUTH0_DOMAIN", "/authorize", "redirect_uri",
                                     loginRedirectUri, {})}]
     /\ UNCHANGED <<env, clock, oidc, issued, completed, jar, inflight>>
     /\ sessionTouch(b)
     /\ UNCHANGED <<handling, store>>

Next ==
  \/ \E b \in Browsers, p \in ProductIdInputs, r \in ReturnToInputs : Login(b, p, r)
  \/ \E b \in Browsers, u \in IdpUsers : IdpAuthenticate(b, u)
  \/ \E b \in Browsers, c \in Codes, a \in ProductAnswers : Callback(b, c, a)
  \/ \E b \in Browsers : CallbackDraft1(b)
  \/ \E b \in Browsers, t \in Presentable : ValidateToken(b, {t})
  \/ \E b \in Browsers : ValidateToken(b, {})
  \/ \E b \in Browsers, p \in {"pluriell", "receipt"}, q \in Requests :
        ProductAuth(b, p, q)
  \/ \E b \in Browsers : SessionGet(b)
  \/ \E b \in Browsers : TokenFromSession(b)
  \/ \E t \in Instants : Tick(t)

Spec == Init /\ [][Next]_vars

-----------------------------------------------------------------------------
(* The minting endpoints and the token-protected endpoints *)

NextValidate ==
  \/ \E b \in Browsers, u \in IdpUsers : IdpAuthenticate(b, u)
  \/ \E b \in Browsers : Callback(b, "c0de01", "timeout")
  \/ \E b \in Browsers : CallbackDraft1(b)
  \/ \E b \in Browsers : TestToken(b)
  \/ \E b \in Browsers, p \in {Undef, "pluriell"} : PostToken(b, p)
  \/ \E b \in Browsers, p \in {"pluriell", "receipt"},
         q \in Requests \cup ForgedRequests : ProductAuth(b, p, q)
  \/ \E b \in Browsers, q \in TwoTokenRequests : ProductAuth(b, "pluriell", q)
  \/ \E b \in Browsers, t \in Presentable \cup Forgeries : UserProfile(b, {t})
  \/ \E b \in Browsers : UserProfile(b, {})
  \/ \E t \in Instants : Tick(t)

SpecValidate == Init /\ [][NextValidate]_vars

-----------------------------------------------------------------------------
(* Login, callback, session endpoints and logout *)

NextLogout ==
  \/ \E b \in Browsers, p \in ProductIdInputs, r \in ReturnToInputs : Login(b, p, r)
  \/ \E b \in Browsers, u \in IdpUsers : IdpAuthenticate(b, u)
  \/ \E b \in Browsers, c \in Codes, a \in ProductAnswers : Callback(b, c, a)
  \/ \E b \in Browsers : CallbackDraft1(b)
  \/ \E b \in Browsers : SessionGet(b)
  \/ \E b \in Browsers : TokenFromSession(b)
  \/ \E b \in Browsers, r \in ReturnToInputs, d \in BOOLEAN : Logout(b, r, d)
  \/ \E b \in Browsers, r \in ReturnToInputs, g \in BOOLEAN : LogoutDraft1(b, r, g)
  \/ \E b \in Browsers, r \in ReturnToInputs, d \in BOOLEAN : GlobalLogout(b, r, d)

SpecLogout == Init /\ [][NextLogout]_vars

-----------------------------------------------------------------------------
(* Two browser sessions on a configured broker: the minting endpoints only *)

TwoBrowsers == {"b1", "b2"}

InitTwo ==
  /\ env \in [NODE_ENV : {"production"},
              JWT_SECRET : {TRUE},
              SSO_GATEWAY_SECRET : {TRUE},
              draft : {1, 2}]
  /\ clock = 0
  /\ oidc = [b \in TwoBrowsers |-> {}]
  /\ session = [b \in TwoBrowsers |-> EmptySession]
  /\ issued = {}
  /\ resp = BaseResp
  /\ steps = 0
  /\ completed = [b \in TwoBrowsers |-> [callbacks |-> 0, consumed |-> 0]]
  /\ jar = [b \in TwoBrowsers |-> {}]
  /\ inflight = [r \in Slots |-> IdleRequest]
  /\ sessionCookie = [b \in TwoBrowsers |-> 0]
  /\ handling = IdleHandling
  /\ store = IdleStore

NextTwo ==
  \/ \E b \in TwoBrowsers, u \in IdpUsers : IdpAuthenticate(b, u)
  \/ \E b \in TwoBrowsers : Callback(b, "c0de01", "timeout")
  \/ \E b \in TwoBrowsers : CallbackDraft1(b)
  \/ \E b \in TwoBrowsers, p \in {Undef, "pluriell"} : PostToken(b, p)
  \/ \E b \in TwoBrowsers : SessionGet(b)
  \/ \E b \in TwoBrowsers : TokenFromSession(b)
  \/ Tick(clock + 1)

SpecTwo == InitTwo /\ [][NextTwo]_vars

-----------------------------------------------------------------------------
(* Login requests and callback requests of one browser served at once *)

\* returnTo values of a login request: none, an absolute URL, a
\* protocol-relative one
LoginReturnTos == ReturnToInputs \cup {"//evil.example"}

LoginProductIds == {Undef, "product1", "pluriell", "nosuch"}

\* validateLoginRequest of utils/validation.js: an optional productId out of
\* product1..3 and an optional returnTo that isURL({require_protocol: true})
\* accepts; TRUE when the request passes
validateLoginRequest(productId, returnTo) ==
  /\ productId \in {Undef, "product1", "product2", "product3"}
  /\ returnTo \in {Undef, "https://a.example/dash"}

NextLogin ==
  \/ \E b \in Browsers, p \in LoginProductIds, r \in LoginReturnTos : Login(b, p, r)
  \/ \E b \in Browsers : IdpAuthenticate(b, [sub |-> "auth0|u2"])
  \/ \E r \in Slots, b \in Browsers : CallbackBegin(r, b)
  \/ \E r \in Slots, a \in {"200-success", "timeout"} : CallbackHandle(r, "c0de01", a)
  \/ \E r \in Slots : CallbackHandleDraft1(r)

SpecLogin == Init /\ [][NextLogin]_vars

-----------------------------------------------------------------------------
(* Callback requests and logouts of one authenticated browser with a       *)
(* pending login, served at once                                            *)

InitRace ==
  /\ env \in [NODE_ENV : {"production"},
              JWT_SECRET : {TRUE},
              SSO_GATEWAY_SECRET : {TRUE},
              draft : {1, 2}]
  /\ clock = 0
  /\ oidc = [b \in Browsers |-> {[sub |-> "auth0|u2"]}]
  /\ \E p \in {Undef, "product1", "pluriell"} :
       session = [b \in Browsers |->
                    storePending(EmptySession, p, "https://a.example/dash")]
  /\ issued = {[token |-> IdpToken([sub |-> "auth0|u2"], 0), by |-> "idp",
                to |-> b, at |-> 0] : b \in Browsers}
  /\ resp = BaseResp
  /\ steps = 0
  /\ completed = [b \in Browsers |-> [callbacks |-> 0, consumed |-> 0]]
  /\ jar = [b \in Browsers |-> {}]
  /\ inflight = [r \in Slots |-> IdleRequest]
  /\ sessionCookie = [b \in Browsers |-> SessionMaxAge]
  /\ handling = IdleHandling
  /\ store = IdleStore

NextRace ==
  \/ \E r \in Slots, b \in Browsers : CallbackBegin(r, b)
  \/ \E r \in Slots, a \in {"200-success", "timeout"} : CallbackHandle(r, "c0de01", a)
  \/ \E r \in Slots : CallbackHandleDraft1(r)
  \/ \E b \in Browsers, q \in ReturnToInputs : Logout(b, q, TRUE)
  \/ \E b \in Browsers, q \in ReturnToInputs, g \in BOOLEAN : LogoutDraft1(b, q, g)
  \/ \E b \in Browsers, q \in ReturnToInputs : GlobalLogout(b, q, TRUE)

SpecRace == InitRace /\ [][NextRace]_vars

-----------------------------------------------------------------------------
(* Minting, logout and validation of the minted tokens *)

NextRevoke ==
  \/ \E b \in Browsers, u \in IdpUsers : IdpAuthenticate(b, u)
  \/ \E b \in Browsers : Callback(b, "c0de01", "timeout")
  \/ \E b \in Browsers : CallbackDraft1(b)
  \/ \E b \in Browsers : PostToken(b, "pluriell")
  \/ \E b \in Browsers, d \in BOOLEAN : Logout(b, Undef, d)
  \/ \E b \in Browsers, g \in BOOLEAN : LogoutDraft1(b, Undef, g)
  \/ \E b \in Browsers, d \in BOOLEAN : GlobalLogout(b, Undef, d)
  \/ \E b \in Browsers, t \in Presentable :
        ProductAuth(b, "pluriell", Request("header", {t}))
  \/ \E t \in Instants : Tick(t)

SpecRevoke == Init /\ [][NextRevoke]_vars

-----------------------------------------------------------------------------
(* A broker session that ages: the browser has completed a callback at      *)
(* instant 0 and keeps using the session endpoints                          *)

\* the user who completed the callback
AgedUser == CHOOSE u \in IdpUsers : "email" \in DOMAIN u

\* the token that callback minted
AgedToken == TheToken(generateToken(tokenPayload(AgedUser, Undef), 0))

InitAge ==
  /\ env \in [NODE_ENV : {"production", "development"},
              JWT_SECRET : {TRUE},
              SSO_GATEWAY_SECRET : {TRUE},
              draft : {2}]
  /\ clock = 0
  /\ oidc \in [Browsers -> {{}, {AgedUser}}]
  /\ session = [b \in Browsers |->
                  storeAuthenticated(EmptySession, tokenPayload(AgedUser, Undef),
                                     AgedToken, 0)]
  /\ issued = UNION {{[token |-> IdpToken(AgedUser, 0), by |-> "idp", to |-> b, at |-> 0],
                      [token |-> AgedToken, by |-> "callback", to |-> b, at |-> 0]}
                     : b \in Browsers}
  /\ resp = BaseResp
  /\ steps = 0
  /\ completed = [b \in Browsers |-> [callbacks |-> 1, consumed |-> 0]]
  /\ jar = [b \in Browsers |-> {Cookie("access_token", {AgedToken}, callbackCookieOptions)}]
  /\ inflight = [r \in Slots |-> IdleRequest]
  /\ sessionCookie = [b \in Browsers |-> SessionMaxAge]
  /\ handling = IdleHandling
  /\ store = IdleStore

NextAge ==
  \/ \E b \in Browsers, r \in ReturnToInputs : Login(b, Undef, r)
  \/ \E b \in Browsers : SessionGet(b)
  \/ \E b \in Browsers : TokenFromSession(b)
  \/ \E b \in Browsers, d \in BOOLEAN : Logout(b, Undef, d)
  \/ \E t \in Instants : Tick(t)

SpecAge == InitAge /\ [][NextAge]_vars

-----------------------------------------------------------------------------
(* The handlers of GET /auth/callback, GET /auth/logout, GET                *)
(* /auth/global-logout and POST /api/validate-token followed statement by   *)
(* statement, one request at a time: which statements send a response      *)

\* everything but the request being followed
served == <<env, clock, oidc, session, issued, resp, steps, completed, jar, inflight,
            sessionCookie, store>>

RespondUser == [sub |-> "auth0|u2"]

\* body.token of a POST /api/validate-token: none, no JWT, a JWT of another
\* signer, a JWT of the IdP
RespondTokens == {{}, {Garbage}, {ForgedIdp}, {IdpToken(RespondUser, 0)}}

\* res.redirect, res.json, res.status().json, res.oidc.logout and the answer
\* of requiresAuth(): one response sent, the handler goes on at place pc
Responds(h, pc) == [h EXCEPT !.sent = @ + 1, !.pc = pc]

Arrive(route, authed, productId, token) ==
  /\ handling.pc \in {"idle", "done"}
  /\ ~handling.destroying
  /\ handling' = [route |-> route, pc |-> "start", sent |-> 0, destroying |-> FALSE,
                  authed |-> authed, productId |-> productId, token |-> token]
  /\ UNCHANGED served

\* requiresAuth(): a request without IdP session is answered by the
\* middleware; the handler is not entered
CallbackRequiresAuth ==
  /\ handling.route = "callback" /\ handling.pc = "start"
  /\ handling' = IF handling.authed THEN [handling EXCEPT !.pc = "try"]
                 ELSE Responds(handling, "done")
  /\ UNCHANGED served

\* try { ... generateToken(tokenPayload) ... res.cookie ... req.session ... }:
\* generateToken throws without a signing secret
CallbackTry ==
  /\ handling.route = "callback" /\ handling.pc = "try"
  /\ handling' = [handling EXCEPT !.pc =
                    IF generateToken(tokenPayload(RespondUser, handling.productId), clock).ok
                      THEN "stored" ELSE "catch"]
  /\ UNCHANGED served

\* if (productId) { await performBackChannelHandoff(...) } else
\* res.redirect(returnTo), the last statement of the try block
CallbackStored ==
  /\ handling.route = "callback" /\ handling.pc = "stored"
  /\ handling' = IF handling.productId # Undef THEN [handling EXCEPT !.pc = "handoff"]
                 ELSE Responds(handling, "done")
  /\ UNCHANGED served

\* the handoff resolves (it catches its own errors); the success branch and
\* the failure branch each return res.redirect(...)
CallbackHandoff ==
  /\ handling.route = "callback" /\ handling.pc = "handoff"
  /\ handling' = Responds(handling, "done")
  /\ UNCHANGED served

\* catch (error) { res.status(500).json(...) }
CallbackCatch ==
  /\ handling.route = "callback" /\ handling.pc = "catch"
  /\ handling' = Responds(handling, "done")
  /\ UNCHANGED served

\* GET /auth/logout: clearCookie calls, req.session.destroy(cb) started,
\* res.oidc.logout({returnTo})
LogoutServe ==
  /\ handling.route = "logout" /\ handling.pc = "start"
  /\ handling' = Responds([handling EXCEPT !.destroying = TRUE], "done")
  /\ UNCHANGED served

\* GET /auth/global-logout: the same, then res.oidc.logout({returnTo}) with
\* an IdP session and res.redirect(returnTo) without
GlobalLogoutServe ==
  /\ handling.route = "global-logout" /\ handling.pc = "start"
  /\ handling' = Responds([handling EXCEPT !.destroying = TRUE], "done")
  /\ UNCHANGED served

\* the destroy callback answering a failed destroy with an error response
DestroyCallbackResponds(err) ==
  /\ handling.destroying
  /\ handling' = IF err THEN [handling EXCEPT !.destroying = FALSE, !.sent = @ + 1]
                 ELSE [handling EXCEPT !.destroying = FALSE]
  /\ UNCHANGED served

\* the callback of req.session.destroy: (err) => { if (err) logger.error(...) }
DestroyCallback(err) ==
  /\ handling.destroying
  /\ handling' = [handling EXCEPT !.destroying = FALSE]
  /\ UNCHANGED served

\* POST /api/validate-token: if (!token) return res.status(400).json(...);
\* else verifyAuth0Token(req, res, callback) is entered
ValidateTokenBody ==
  /\ handling.route = "validate-token" /\ handling.pc = "start"
  /\ handling' = IF handling.token = {} THEN Responds(handling, "done")
                 ELSE [handling EXCEPT !.pc = "decode"]
  /\ UNCHANGED served

\* verifyAuth0Token: jwt.decode; no header or no kid: return
\* res.status(401).json(...); else await getSigningKey(kid)
VerifyDecode ==
  /\ handling.route = "validate-token" /\ handling.pc = "decode"
  /\ LET t == CHOOSE x \in handling.token : TRUE
     IN handling' = IF t.fmt # "jwt" \/ t.kid = Undef THEN Responds(handling, "done")
                    ELSE [handling EXCEPT !.pc = "key"]
  /\ UNCHANGED served

\* getSigningKey resolves or rejects (timeout: 30000), then jwt.verify: a
\* rejection and a throw go to the catch block, else next() is called
VerifyKey(keyFound) ==
  /\ handling.route = "validate-token" /\ handling.pc = "key"
  /\ LET t == CHOOSE x \in handling.token : TRUE
         v == JwtVerify(t, "auth0-signing-key", {"RS256"},
                        "AUTH0_AUDIENCE", "https://AUTH0_DOMAIN/", clock)
     IN handling' = [handling EXCEPT !.pc = IF keyFound /\ v.ok THEN "next" ELSE "caught"]
  /\ UNCHANGED served

\* next(): the callback of the route, res.json({success: true, valid: true, ...})
VerifyNext ==
  /\ handling.route = "validate-token" /\ handling.pc = "next"
  /\ handling' = Responds(handling, "done")
  /\ UNCHANGED served

\* catch (error) { return res.status(401).json(...) }
VerifyCatch ==
  /\ handling.route = "validate-token" /\ handling.pc = "caught"
  /\ handling' = Responds(handling, "done")
  /\ UNCHANGED served

InitRespond ==
  /\ env \in [NODE_ENV : {"production", "development"},
              JWT_SECRET : BOOLEAN,
              SSO_GATEWAY_SECRET : {TRUE},
              draft : {2}]
  /\ clock = 0
  /\ oidc = [b \in Browsers |-> {}]
  /\ session = [b \in Browsers |-> EmptySession]
  /\ issued = {}
  /\ resp = BaseResp
  /\ steps = 0
  /\ completed = [b \in Browsers |-> [callbacks |-> 0, consumed |-> 0]]
  /\ jar = [b \in Browsers |-> {}]
  /\ inflight = [r \in Slots |-> IdleRequest]
  /\ sessionCookie = [b \in Browsers |-> 0]
  /\ handling = IdleHandling
  /\ store = IdleStore

\* the steps of a handler and of its callbacks
HandlerStep ==
  \/ CallbackRequiresAuth
  \/ CallbackTry
  \/ CallbackStored
  \/ CallbackHandoff
  \/ CallbackCatch
  \/ LogoutServe
  \/ GlobalLogoutServe
  \/ \E err \in BOOLEAN : DestroyCallback(err)
  \/ ValidateTokenBody
  \/ VerifyDecode
  \/ \E k \in BOOLEAN : VerifyKey(k)
  \/ VerifyNext
  \/ VerifyCatch

NextRespond ==
  \/ \E a \in BOOLEAN, p \in {Undef, "product1", "pluriell"} : Arrive("callback", a, p, {})
  \/ \E a \in BOOLEAN, r \in {"logout", "global-logout"} : Arrive(r, a, Undef, {})
  \/ \E t \in RespondTokens : Arrive("validate-token", FALSE, Undef, t)
  \/ HandlerStep

\* every await of the handlers ends: axios.post and the JWKS client run with
\* timeouts, the session store answers the destroy
SpecRespond == InitRespond /\ [][NextRespond]_vars /\ WF_vars(HandlerStep)

-----------------------------------------------------------------------------
(* The session-store modules config/database.js and utils/sessionStore.js   *)

\* everything but the session-store modules
broker == <<env, clock, oidc, session, issued, resp, steps, completed, jar, inflight,
            sessionCookie, handling>>

\* getSessionStore: null without a redisClient, else a RedisStore on it
getSessionStore(redisClient) == IF redisClient = "null" THEN "null" ELSE "redis"

\* createSessionStore: a RedisStore in production when the redis packages
\* load, REDIS_URL is set and neither createClient nor the RedisStore
\* constructor throws; every throw is caught and the MemoryStore is returned
createSessionStore(nodeEnv, packagesLoad, redisUrl, setupThrows) ==
  IF nodeEnv = "production" /\ packagesLoad /\ redisUrl /\ ~setupThrows
    THEN "redis" ELSE "memory"

\* initializeRedis up to await redisClient.connect(): null without REDIS_URL;
\* a throw of createClient is caught and null returned; else the new client
\* is assigned to redisClient and the call waits for connect()
InitializeRedisBegin(createThrows) ==
  /\ ~store.initializing
  /\ store' = IF ~store.REDIS_URL \/ createThrows
                THEN [store EXCEPT !.initReturned = "null", !.got = "none"]
                ELSE [store EXCEPT !.redisClient = "connecting", !.initializing = TRUE,
                                   !.initReturned = "none", !.got = "none"]
  /\ UNCHANGED broker

\* connect() resolves and the client is returned, or rejects and the catch
\* block returns null
InitializeRedisEnd(connected) ==
  /\ store.initializing
  /\ store' = [store EXCEPT !.initializing = FALSE,
                            !.redisClient = IF connected THEN "connected" ELSE "failed",
                            !.initReturned = IF connected THEN "client" ELSE "null"]
  /\ UNCHANGED broker

GetSessionStore ==
  /\ store' = [store EXCEPT !.got = getSessionStore(store.redisClient)]
  /\ UNCHANGED broker

\* closeRedis: quit() on the client, errors logged; redisClient is kept
CloseRedis ==
  /\ store.redisClient = "connected"
  /\ store' = [store EXCEPT !.redisClient = "closed"]
  /\ UNCHANGED broker

\* createSessionStore returns; the connect() of the client it created is
\* still running
CreateSessionStore(setupThrows) ==
  /\ store.createdClient # "connecting"
  /\ LET made == createSessionStore(env.NODE_ENV, store.packages, store.REDIS_URL,
                                    setupThrows)
     IN store' = [store EXCEPT !.created = made,
                               !.createdClient = IF made = "redis" THEN "connecting"
                                                 ELSE "none"]
  /\ UNCHANGED broker

\* (async () => { try { await redisClient.connect() } catch (err) { log } })()
CreatedClientConnects(connected) ==
  /\ store.createdClient = "connecting"
  /\ store' = [store EXCEPT !.createdClient = IF connected THEN "connected" ELSE "failed"]
  /\ UNCHANGED broker

InitStore ==
  /\ env \in [NODE_ENV : {"production", "development"},
              JWT_SECRET : {TRUE},
              SSO_GATEWAY_SECRET : {TRUE},
              draft : {2}]
  /\ clock = 0
  /\ oidc = [b \in Browsers |-> {}]
  /\ session = [b \in Browsers |-> EmptySession]
  /\ issued = {}
  /\ resp = BaseResp
  /\ steps = 0
  /\ completed = [b \in Browsers |-> [callbacks |-> 0, consumed |-> 0]]
  /\ jar = [b \in Browsers |-> {}]
  /\ inflight = [r \in Slots |-> IdleRequest]
  /\ sessionCookie = [b \in Browsers |-> 0]
  /\ handling = IdleHandling
  /\ \E u \in BOOLEAN, p \in BOOLEAN :
       store = [IdleStore EXCEPT !.REDIS_URL = u, !.packages = p]

NextStore ==
  \/ \E t \in BOOLEAN : InitializeRedisBegin(t)
  \/ \E c \in BOOLEAN : InitializeRedisEnd(c)
  \/ GetSessionStore
  \/ CloseRedis
  \/ \E t \in BOOLEAN : CreateSessionStore(t)
  \/ \E c \in BOOLEAN : CreatedClientConnects(c)

SpecStore == InitStore /\ [][NextStore]_vars

-----------------------------------------------------------------------------
(* Properties *)

\* the tokens GET /auth/callback has minted
CallbackTokens == {i.token : i \in {j \in issued : j.by = "callback"}}

\* a callback that got past requiresAuth()
CallbackRan == resp.handler = "callback" /\ resp.status # 401

\* the products getProductConfig configures for back-channel delivery
BackChannelProducts == {"pluriell", "receipt"}

\* C1: every token the callback minted and delivered (the signing secret
\* being configured), sent to POST /api/validate-token before its exp, is
\* answered 200 with valid=true and the user's claims.
C1_CallbackTokenValidates ==
  \A t \in resp.reqTokens :
    (/\ resp.handler = "validate-token"
     /\ env.JWT_SECRET
     /\ t \in CallbackTokens
     /\ clock < t.payload.exp)
    => /\ resp.status = 200
       /\ resp.valid
       /\ \E u \in resp.bodyUser : u.id = Get(t.payload, "sub")

\* C2: a callback that completes leaves neither productId nor returnTo in
\* the session, and a further callback of the authenticated browser that
\* finds no pending login answers with a redirect to '/' (never a 500).
C2_PendingConsumedOnce ==
  /\ (resp.handler = "callback" /\ resp.status = 302)
       => /\ session[resp.browser].productId = Undef
          /\ session[resp.browser].returnTo = Undef
  /\ (CallbackRan /\ resp.prior >= 1 /\ resp.pending = NoPending)
       => /\ resp.status = 302
          /\ resp.redirect = {[base |-> "/", path |-> "", param |-> Undef,
                               value |-> "", tokens |-> {}]}

\* a second callback on a session whose pending login the first one consumed
C2_Witness ==
  /\ CallbackRan
  /\ resp.prior >= 1
  /\ resp.pending = NoPending
  /\ resp.priorConsumed >= 1
  /\ resp.status = 302
  /\ session[resp.browser].returnTo = Undef

\* C3: a callback whose pending productId is product1 (not a back-channel
\* product) mints a token without aud, sets it as the access_token cookie and
\* redirects to product1's base URL + /auth/sso-callback?token=<token>.
C3_DirectDelivery ==
  (CallbackRan /\ resp.status # 500 /\ resp.pending.productId = "product1")
    => \E t \in resp.minted :
         /\ "aud" \notin DOMAIN t.payload
         /\ \E c \in resp.cookies : c.name = "access_token" /\ c.tokens = {t}
         /\ resp.redirect = {[base |-> "http://localhost:3001",
                              path |-> "/auth/sso-callback",
                              param |-> "token", value |-> "", tokens |-> {t}]}

\* C4: a callback for a back-channel product whose session endpoint answers
\* 200 with success=true redirects the browser to the product's
\* /auth/callback?code=<one-time code>, with no token in the redirect.
C4_BackChannelSuccess ==
  (/\ CallbackRan
   /\ resp.status # 500
   /\ env.draft = 2
   /\ resp.pending.productId \in BackChannelProducts
   /\ resp.answer = "200-success")
    => \E u \in resp.redirect :
         /\ u.path = "/auth/callback"
         /\ u.param = "code"
         /\ u.value \in Codes
         /\ u.tokens = {}

\* C5: on the handoff path of the callback no redirect URL carries a token
\* (access token, product token or assertion) and every cookie that carries
\* a token is http-only.
C5_NoTokenInHandoffRedirect ==
  (CallbackRan /\ env.draft = 2 /\ resp.pending.productId # Undef)
    => /\ \A u \in resp.redirect : u.tokens = {}
       /\ \A c \in resp.cookies : c.tokens # {} => c.httpOnly

\* a callback for pluriell: cookie set, browser redirected
C5_Witness ==
  /\ CallbackRan
  /\ env.draft = 2
  /\ resp.pending.productId = "pluriell"
  /\ resp.status = 302
  /\ resp.redirect # {}
  /\ \E c \in resp.cookies : c.tokens # {}

\* C6: in back-channel mode no token reaches the browser: not in the
\* callback's redirect, cookies or body, and not from the session endpoints
\* of a session logged in for a back-channel product.
C6_CodeIsOnlyCredential ==
  /\ (CallbackRan /\ env.draft = 2 /\ resp.pending.productId \in BackChannelProducts)
       => /\ \A u \in resp.redirect : u.tokens = {}
          /\ \A c \in resp.cookies : c.tokens = {}
          /\ resp.bodyTokens = {}
  /\ (/\ resp.handler \in {"session", "token-from-session"}
      /\ \E u \in session[resp.browser].user :
           Get(u, "productId") \in BackChannelProducts)
       => resp.bodyTokens = {}

\* C7: when the handoff fails (unknown product, or a product answer that is
\* not a 200 with success=true) the callback redirects to returnTo with an
\* error indicator, and a callback calls the product's session endpoint at
\* most once.
C7_HandoffFailure ==
  (CallbackRan /\ resp.status # 500 /\ env.draft = 2 /\ resp.pending.productId # Undef)
    => /\ resp.calls <= 1
       /\ (resp.pending.productId \notin BackChannelProducts \/ resp.answer # "200-success")
            => \E u \in resp.redirect :
                 /\ resp.redirect = {u}
                 /\ u.base = (IF resp.pending.returnTo = Undef THEN "/"
                              ELSE resp.pending.returnTo)
                 /\ u.param = "error"
                 /\ u.tokens = {}

\* a callback for a product getProductConfig does not know, sent back to the
\* caller's returnTo
C7_Witness ==
  /\ CallbackRan
  /\ env.draft = 2
  /\ resp.pending.productId = "nosuch"
  /\ resp.pending.returnTo = "https://a.example/dash"
  /\ \E u \in resp.redirect : u.base = "https://a.example/dash" /\ u.param = "error"

\* C9: a callback in which minting throws (no signing secret) answers 500
\* with a JSON error, no redirect and no cookie, and no callback redirects
\* to an SSO-callback URL without a token.
C9_CallbackFailure ==
  /\ (CallbackRan /\ env.draft = 2 /\ ~env.JWT_SECRET)
       => resp.status = 500
  /\ (CallbackRan /\ resp.status = 500)
       => /\ resp.redirect = {}
          /\ resp.cookies = {}
          /\ resp.minted = {}
          /\ resp.error = "Authentication callback failed"
  /\ resp.handler = "callback"
       => \A u \in resp.redirect : u.path = "/auth/sso-callback" => u.tokens # {}

\* a callback with a pending login for product1 whose minting threw
C9_Witness ==
  /\ CallbackRan
  /\ resp.status = 500
  /\ resp.pending.productId = "product1"

\* the projection of the IdP claims the callback is to put into the token
Projected(t, user, productId) ==
  /\ Get(t.payload, "sub") = Get(user, "sub")
  /\ Get(t.payload, "email") = Get(user, "email")
  /\ Get(t.payload, "name") = Get(user, "name")
  /\ Get(t.payload, "picture") = Get(user, "picture")
  /\ t.payload.roles = (IF RolesKey \in DOMAIN user THEN user[RolesKey] ELSE <<>>)
  /\ t.payload.permissions =
       (IF PermissionsKey \in DOMAIN user THEN user[PermissionsKey] ELSE <<>>)
  /\ Get(t.payload, "productId") = productId

\* the token the callback minted carries the projection of the IdP claims
\* and the pending productId
MintedIsProjection ==
  (CallbackRan /\ env.draft = 2 /\ resp.hadPending /\ resp.status # 500)
    => \E t \in resp.minted :
         /\ resp.minted = {t}
         /\ \A u \in resp.user : Projected(t, u, resp.pending.productId)

\* a product-auth request presenting an unexpired token of the callback
VerifiesCallbackToken(t) ==
  /\ resp.handler = "product-auth"
  /\ env.draft = 2
  /\ resp.reqTokens = {t}
  /\ t \in CallbackTokens
  /\ clock < t.payload.exp

\* the token the Pluriell structure check of verifyCustomToken refuses
LacksPluriellFields(t) ==
  /\ Get(t.payload, "productId") = "pluriell"
  /\ (Get(t.payload, "sub") = Undef \/ Get(t.payload, "email") = Undef)

VerifiesMintedToken(t) ==
  /\ resp.handler = "product-auth"
  /\ resp.reqTokens = {t}
  /\ t.fmt = "jwt"
  /\ t.key = "JWT_SECRET"
  /\ "exp" \in DOMAIN t.payload

C11_WitnessExpired ==
  \E t \in resp.reqTokens :
    /\ VerifiesMintedToken(t)
    /\ resp.at = t.payload.exp
    /\ resp.status = 401
    /\ resp.error = "Token expired"

\* C12: for every token, verifyCustomToken (behind the product-auth
\* endpoints), requireAuth's token branch (behind /user/profile) and
\* verifyAuth0Token give the same accept/reject verdict at the same clock
\* value.
C12_SingleSourceOfTruth ==
  \A t \in resp.reqTokens :
    LET req == Request("header", {t}) IN
    /\ resp.handler = "product-auth"
         => (resp.status # 401) = verifyAuth0Token(req, resp.at).pass
    /\ (resp.handler = "user-profile" /\ resp.via = "token")
         => /\ (resp.status = 200) = verifyAuth0Token(req, resp.at).pass
            /\ (resp.status = 200) = verifyCustomToken(req, resp.at).pass

\* C13: of the tokens a request carries, the validator uses the bearer token
\* of the Authorization header first, then the access_token cookie the
\* callback set, then the query parameter; a request carrying only that
\* cookie carries a token.
C13_ExtractionPrecedence ==
  (resp.handler = "product-auth" /\ resp.req.cookieToken = {})
    => resp.reqTokens =
         (IF resp.req.authorization # {} THEN resp.req.authorization
          ELSE IF resp.req.cookieAccessToken # {} THEN resp.req.cookieAccessToken
          ELSE resp.req.query)

\* the failure kind an error string of the validators stands for; 'Invalid
\* token' is what verifyAuth0Token answers to a bad signature
KindOf(error) ==
  CASE error \in {"Access token is required", "Authentication required"} -> "Missing"
    [] error = "Invalid token format" -> "Malformed"
    [] error = "Token expired" -> "Expired"
    [] error \in {"Invalid token", "Token verification failed"} -> "SignatureInvalid"
    [] OTHER -> "none"

\* a response of an endpoint behind verifyCustomToken, or behind
\* verifyAuth0Token by way of requireAuth's token branch
ByCustomValidator == resp.handler = "product-auth"

ByAuth0Validator == resp.handler = "user-profile" /\ resp.via = "token"

\* C14: a validator answers a request without token, with a malformed token,
\* an expired token or a token with a bad signature with a 401 whose kind is
\* Missing, Malformed, Expired or SignatureInvalid respectively, and no
\* validator answers with a 5xx.
C14_TypedFailures ==
  (ByCustomValidator \/ ByAuth0Validator)
    => /\ resp.status < 500
       /\ resp.reqTokens = {}
            => resp.status = 401 /\ KindOf(resp.error) = "Missing"
       /\ \A t \in resp.reqTokens :
            /\ t = Garbage
                 => resp.status = 401 /\ KindOf(resp.error) = "Malformed"
            /\ ((ByCustomValidator /\ t = Forged) \/ (ByAuth0Validator /\ t = ForgedIdp))
                 => resp.status = 401 /\ KindOf(resp.error) = "SignatureInvalid"
            /\ (/\ t.fmt = "jwt"
                /\ resp.at >= t.payload.exp
                /\ \/ ByCustomValidator /\ t.key = "JWT_SECRET"
                   \/ ByAuth0Validator /\ t.key = "auth0-signing-key")
                 => resp.status = 401 /\ KindOf(resp.error) = "Expired"

\* C15: a token signed with JWT_SECRET and unexpired whose iss is not
\* 'sso-gateway', or that carries an aud, is rejected with a 401 by the
\* endpoints behind verifyCustomToken.
C15_IssuerAudienceChecked ==
  \A t \in resp.reqTokens :
    (/\ VerifiesMintedToken(t)
     /\ resp.at < t.payload.exp
     /\ (Get(t.payload, "iss") # "sso-gateway" \/ "aud" \in DOMAIN t.payload))
      => resp.status = 401

\* C16: every token handed out that is signed with the broker's signing
\* secret carries iss = 'sso-gateway' and exp = iat + 24h (the default TTL),
\* and no aud, none of them being the product-scoped token of a handoff.
C16_MinterShape ==
  \A i \in issued :
    i.token.key \in {"JWT_SECRET", "default-secret-key"}
      => /\ Get(i.token.payload, "iss") = "sso-gateway"
         /\ i.token.payload.exp = i.token.payload.iat + OneDay
         /\ "aud" \notin DOMAIN i.token.payload

\* the hand-outs of tokens the broker minted
Minted == {i \in issued : i.by # "idp"}

\* C17: two mints at different clock values yield different tokens, and no
\* token value is handed out to two different browser sessions.
C17_MintFreshness ==
  \A i, j \in Minted :
    /\ i.token.payload.iat # j.token.payload.iat => i.token # j.token
    /\ i.token = j.token => i.to = j.to

\* a response of one of the logout routes
LogoutRan == resp.handler \in {"logout", "global-logout"}

\* C18: every logout request leaves no broker-held session for the browser
\* (neither the server-side session nor the IdP session of the OIDC
\* middleware), whether or not the store destroyed the session, and answers
\* with a redirect to returnTo or to the IdP's logout URL carrying returnTo,
\* never with an error.
C18_LogoutTerminal ==
  LogoutRan
    => /\ resp.status = 302
       /\ session[resp.browser] = EmptySession
       /\ oidc[resp.browser] = {}
       /\ \E u \in resp.redirect :
            /\ resp.redirect = {u}
            /\ (u.base = resp.returnTo \/ (u.param = "returnTo" /\ u.value = resp.returnTo))

\* the options the callback of the deployed version sets access_token with
SetOptions == IF env.draft = 1 THEN callbackCookieOptionsDraft1 ELSE callbackCookieOptions

\* C19: once the callback of the current version has set the access_token
\* cookie, a logout issues a clear for access_token with the domain, path,
\* sameSite and secure the callback used, and the cookie jar holds no
\* access_token afterwards.
C19_ClearReplaysSet ==
  (LogoutRan /\ env.draft = 2 /\ completed[resp.browser].callbacks >= 1)
    => /\ \E i \in 1..Len(resp.cleared) :
            /\ resp.cleared[i].name = "access_token"
            /\ resp.cleared[i].domain = SetOptions.domain
            /\ PathOf(resp.cleared[i]) = PathOf(SetOptions)
            /\ resp.cleared[i].sameSite = SetOptions.sameSite
            /\ resp.cleared[i].secure = SetOptions.secure
       /\ \A c \in jar[resp.browser] : c.name # "access_token"

\* the cookie names the routes set, and the scopes (domain, path) the
\* deployed version sets them under in production and outside it
IssuedCookieNames == {"access_token"}

UsedScopes ==
  IF env.draft = 1 THEN {<<Undef, "/">>}
  ELSE {<<".receipt-flow.io.vn", "/">>, <<Undef, "/">>}

\* C20: a logout issues exactly one clear for every cookie name issued under
\* every scope used (the root domain and the no-domain fallback).
C20_OverInclusiveClearing ==
  LogoutRan
    => \A name \in IssuedCookieNames, scope \in UsedScopes :
         Cardinality({i \in 1..Len(resp.cleared) :
                        /\ resp.cleared[i].name = name
                        /\ resp.cleared[i].domain = scope[1]
                        /\ PathOf(resp.cleared[i]) = scope[2]}) = 1

\* a logout asked to be global: global=true in the query (read by the first
\* draft only), or the global-logout route
GlobalRequested == resp.global \/ resp.handler = "global-logout"

\* the response sends the browser to the IdP's logout endpoint
ToIdpLogout ==
  \E u \in resp.redirect : u.base = "https://AUTH0_DOMAIN" /\ u.path = "/v2/logout"

\* C21: a logout of an authenticated browser visits the IdP's logout
\* endpoint exactly when it was requested as global; a logout that was not
\* ends the local session only.
C21_FederatedTiedToGlobal ==
  (LogoutRan /\ resp.user # {}) => (ToIdpLogout <=> GlobalRequested)

\* what a login request with this query asks the session to hold
Requested(query) ==
  [productId |-> query.productId,
   returnTo |-> IF query.returnTo = Undef THEN "/" ELSE query.returnTo]

\* the effect of GET /auth/login on everything but the response
LoginEffect(b, productId, returnToQuery) ==
  /\ session'[b].returnTo = (IF returnToQuery = Undef THEN "/" ELSE returnToQuery)
  /\ productId # Undef => session'[b].productId = productId
  /\ session'[b].user = session[b].user
  /\ session'[b].accessToken = session[b].accessToken
  /\ session'[b].authenticated = session[b].authenticated
  /\ session'[b].loginTime = session[b].loginTime
  /\ \A c \in DOMAIN session : c # b => session'[c] = session[c]
  /\ resp'.status = 302
  /\ resp'.redirect = {[base |-> "https://AUTH0_DOMAIN", path |-> "/authorize",
                        param |-> "redirect_uri",
                        value |-> "https://sso.example/auth/callback",
                        tokens |-> {}]}
  /\ UNCHANGED <<env, clock, oidc, issued, completed, jar, inflight>>

C23_LastWriteWins ==
  resp.handler = "login"
    => /\ session[resp.browser].productId = Requested(resp.query).productId
       /\ session[resp.browser].returnTo = Requested(resp.query).returnTo

\* a login request repeated on the session it produced leaves the session
\* as it is
LoginIdempotent ==
  resp.handler = "login"
    => storePending(session[resp.browser], resp.query.productId, resp.query.returnTo)
         = session[resp.browser]

\* the returnTo values a caller can put into a login request
CallerReturnTos == LoginReturnTos \ {Undef}

\* C24: no session holds a returnTo that validateLoginRequest refuses, and no
\* callback redirects to one.
C24_OpenRedirectGuard ==
  /\ \A b \in DOMAIN session :
       session[b].returnTo \in CallerReturnTos
         => validateLoginRequest(Undef, session[b].returnTo)
  /\ resp.handler = "callback"
       => \A u \in resp.redirect :
            u.base \in CallerReturnTos => validateLoginRequest(Undef, u.base)

\* the base URLs of the productUrls table
ProductBaseUrls ==
  {"http://localhost:3001", "http://localhost:3002", "http://localhost:3003",
   "https://pluriell.receipt-flow.io.vn", "https://receipt-flow.io.vn"}

\* C25: however login requests and callback requests of a browser
\* interleave, a callback's redirect URL that carries a token targets a
\* product base URL of the table or BASE_URL, never a returnTo a caller gave.
C25_NoLeakUnderRace ==
  resp.handler = "callback"
    => \A u \in resp.redirect :
         u.tokens # {} => /\ u.base \in ProductBaseUrls \cup {BASE_URL}
                          /\ u.base \notin CallerReturnTos

\* a callback that found a pending login with a caller-chosen returnTo and
\* answered with a redirect carrying the token
C25_Witness ==
  /\ resp.handler = "callback"
  /\ resp.pending.returnTo = "//evil.example"
  /\ \E u \in resp.redirect : u.tokens # {} /\ u.base = "http://localhost:3001"

\* a callback that loaded the session before a login wrote its pending
\* login answers for the older state
C25_WitnessRace ==
  /\ resp.handler = "callback"
  /\ resp.status = 302
  /\ ~resp.hadPending
  /\ session[resp.browser].returnTo = "//evil.example"

\* the verdict of verifyCustomToken on a token presented now
Verdict(t) == verifyCustomToken(Request("header", {t}), clock).pass

\* a step of one of the logout routes
LogoutStep ==
  \E b \in Browsers, q \in ReturnToInputs, d \in BOOLEAN :
    Logout(b, q, d) \/ LogoutDraft1(b, q, d) \/ GlobalLogout(b, q, d)

\* a token signed with JWT_SECRET is accepted by verifyCustomToken before its
\* exp and refused from its exp on, whatever the sessions hold
VerdictByExpOriginal ==
  \A t \in resp.reqTokens :
    VerifiesMintedToken(t) => (resp.status \in {200, 403}) = (resp.at < t.payload.exp)

\* the same, but for the Pluriell structure check
VerdictByExpAlone ==
  \A t \in resp.reqTokens :
    VerifiesMintedToken(t)
      => (resp.status \in {200, 403}) = (resp.at < t.payload.exp /\ ~LacksPluriellFields(t))

VerifiesAtIdp(t, at) ==
  /\ t.fmt = "jwt"
  /\ t.alg = "RS256"
  /\ t.kid = "auth0-kid"
  /\ t.key = "auth0-signing-key"
  /\ Get(t.payload, "aud") = "AUTH0_AUDIENCE"
  /\ Get(t.payload, "iss") = "https://AUTH0_DOMAIN/"
  /\ at < t.payload.exp

\* C27: POST /api/validate-token answers a body without token with 400
\* 'Token is required' and does not call the validator; it answers every
\* body token that does not verify with 401 and success=false, never 200.
C27_ValidateTokenErrors ==
  resp.handler = "validate-token"
    => /\ resp.reqTokens = {}
            => /\ resp.status = 400
               /\ resp.error = "Token is required"
               /\ resp.via = "none"
               /\ ~resp.valid
       /\ \A t \in resp.reqTokens :
            ~VerifiesAtIdp(t, resp.at)
              => /\ resp.status = 401
                 /\ resp.via = "verifyAuth0Token"
                 /\ ~resp.valid
                 /\ resp.bodyUser = {}

\* a token of the IdP presented in the second of its exp and refused
C27_Witness ==
  \E t \in resp.reqTokens :
    /\ resp.handler = "validate-token"
    /\ t.key = "auth0-signing-key"
    /\ resp.at >= t.payload.exp
    /\ resp.status = 401
    /\ resp.error = "Token expired"

\* all requests begun have been answered
NoneInFlight == \A r \in Slots : inflight[r].stage = "idle"

\* C28: of the callback requests of a browser session that overlap on one
\* pending login (current version), at most one finds and uses it; a
\* callback answered after another one consumed it finds none and redirects
\* to '/'.
C28_ConsumedOnceUnderRace ==
  env.draft = 2
    => /\ \A b \in Browsers : completed[b].consumed <= 1
       /\ (CallbackRan /\ resp.priorConsumed >= 1)
            => /\ ~resp.hadPending
               /\ resp.redirect = {[base |-> "/", path |-> "", param |-> Undef,
                                    value |-> "", tokens |-> {}]}

\* C29: when a callback request was answered after a logout that completed
\* while it was in flight, and no request is in flight any more, the session
\* store holds no authenticated session for the browser.
C29_LogoutWins ==
  (CallbackRan /\ NoneInFlight /\ oidc[resp.browser] = {})
    => /\ session[resp.browser].accessToken = {}
       /\ session[resp.browser].user = {}
       /\ ~session[resp.browser].authenticated

\* C30: a callback for a back-channel product whose session endpoint would
\* answer success calls it once, with an assertion signed with
\* SSO_GATEWAY_SECRET that binds the product token and the one-time code and
\* expires 5 minutes after its creation, and the code in the browser's
\* redirect is the code of the assertion.
C30_HandoffOrderAndBinding ==
  (/\ CallbackRan
   /\ resp.status # 500
   /\ env.draft = 2
   /\ resp.pending.productId \in BackChannelProducts
   /\ resp.answer = "200-success")
    => /\ resp.calls = 1
       /\ \E j \in resp.sent, t \in resp.minted :
            /\ resp.sent = {j}
            /\ j.key = "SSO_GATEWAY_SECRET"
            /\ "token" \in DOMAIN j.payload
            /\ j.payload.exp = t.payload.iat + FiveMinutes
            /\ \E u \in resp.redirect :
                 u.param = "code" /\ u.value = j.payload.code

\* the access_token cookies a browser has been sent: those of the last
\* response and those it still holds
AccessTokenCookies ==
  {c \in resp.cookies \cup UNION {jar[b] : b \in Browsers} : c.name = "access_token"}

\* the SameSite attribute is matched without regard to case
SameSiteNone(c) == c.sameSite \in {"None", "none"}

\* C31: in every environment and on every route that sets the access_token
\* cookie (both callbacks, GET /auth/token-from-session), a cookie with a
\* domain attribute or with sameSite=None also has secure=true
C31_CrossDomainCookieFlags ==
  \A c \in AccessTokenCookies : (c.domain # Undef \/ SameSiteNone(c)) => c.secure

\* GET /auth/token-from-session has set a cross-domain cookie in production
C31_Witness ==
  /\ resp.handler = "token-from-session"
  /\ \E c \in resp.cookies :
       c.name = "access_token" /\ c.domain # Undef /\ SameSiteNone(c) /\ c.secure

\* the users a request of browser b is authenticated as: the user of its IdP
\* session, and the user record of a broker session marked authenticated
AuthenticatedUsers(b) ==
  oidc[b] \cup (IF session[b].authenticated THEN session[b].user ELSE {})

\* C32: every token a response mints or returns went out on a request whose
\* IdP session or broker session is authenticated, and its sub is that
\* user's subject
C32_NoTokenWithoutIdp ==
  \A t \in resp.minted \cup resp.bodyTokens :
    \E u \in AuthenticatedUsers(resp.browser) : Get(t.payload, "sub") = Get(u, "sub")

\* the Validator accepts token t at instant now
Accepts(t, now) == verifyCustomToken(Request("header", {t}), now).pass

\* a step in which GET /auth/session or GET /auth/token-from-session answers
SessionEndpointStep ==
  \E b \in Browsers : SessionGet(b) \/ TokenFromSession(b)

\* C33: every token GET /auth/session or GET /auth/token-from-session
\* returns is accepted by the Validator at the instant of the answer, for
\* any age of the broker session
C33_ReturnedTokenValid ==
  [][SessionEndpointStep => \A t \in resp'.bodyTokens : Accepts(t, clock)]_vars

\* claims of token t equal the user record u: an undefined entry of the
\* record is a claim the token does not carry
ClaimsEqualUser(t, u) ==
  /\ \A k \in {"sub", "email", "name", "picture"} : Get(t.payload, k) = Get(u, k)
  /\ \A k \in {"roles", "permissions"} : OrEmptyList(t.payload, k) = OrEmptyList(u, k)

SessionCoherent(sess) ==
  /\ sess.authenticated => (sess.accessToken # {} /\ sess.user # {})
  /\ sess.accessToken # {} =>
       \E u \in sess.user : \A t \in sess.accessToken : ClaimsEqualUser(t, u)

\* C34: in every broker session, authenticated implies that accessToken and
\* user are set, and a stored accessToken carries the claims of the stored
\* user record
C34_SessionCoherence == \A b \in DOMAIN session : SessionCoherent(session[b])

\* a callback has stored the token of a user with a full profile
C34_Witness ==
  /\ CallbackRan /\ resp.status = 302
  /\ \E b \in DOMAIN session :
       /\ session[b].authenticated
       /\ session[b].accessToken = resp.minted
       /\ \E u \in session[b].user : u.email # Undef /\ Len(u.roles) > 0

\* GET /auth/session has stored a token in a session not marked authenticated
C34_WitnessSessionGet ==
  /\ resp.handler = "session" /\ resp.minted # {}
  /\ \E b \in DOMAIN session :
       ~session[b].authenticated /\ session[b].accessToken = resp.minted

\* a step in which the current callback answers
CallbackStep ==
  /\ resp'.handler = "callback"
  /\ \E c \in Codes, a \in ProductAnswers : Callback(resp'.browser, c, a)

\* the response just sent is the error redirect of a failed handoff
HandoffFailedAfter ==
  /\ resp'.status = 302
  /\ resp'.pending.productId # Undef
  /\ \E u \in resp'.redirect : u.param = "error" /\ u.value = "handoff_failed"

\* the three effects of the callback, as they stand once the response is out
CallbackEffectsAfter ==
  LET b == resp'.browser
  IN /\ \E c \in resp'.cookies :
          /\ c.name = "access_token" /\ c.tokens = resp'.minted
          /\ c \in jar'[b]
     /\ session'[b].authenticated
     /\ session'[b].accessToken = resp'.minted /\ resp'.minted # {}
     /\ session'[b].productId = Undef /\ session'[b].returnTo = Undef

\* C35: a failed handoff is not rolled back: the error redirect goes out with
\* the access_token cookie set, the broker session marked authenticated with
\* the token stored in it, and the PendingLogin deleted
C35_FailedHandoffNotRolledBack ==
  [][(HandoffFailedAfter /\ CallbackStep) => CallbackEffectsAfter]_vars

\* a callback with a pending login for a back-channel product has answered
\* with the error redirect and left the session authenticated
C35_Witness ==
  /\ CallbackRan /\ env.draft = 2 /\ resp.status = 302
  /\ resp.hadPending /\ resp.pending.productId \in BackChannelProducts
  /\ \E u \in resp.redirect : u.param = "error" /\ u.value = "handoff_failed"
  /\ resp.cookies # {}
  /\ session[resp.browser].authenticated
  /\ session[resp.browser].accessToken = resp.minted
  /\ session[resp.browser].productId = Undef /\ session[resp.browser].returnTo = Undef

\* token t is verified at instant now: a JWT signed with the JWT_SECRET the
\* broker runs with, not expired, and, when minted for Pluriell, with the sub
\* and email the Validator requires of a Pluriell token
VerifiedToken(t, now) ==
  /\ t.fmt = "jwt"
  /\ env.JWT_SECRET /\ t.key = "JWT_SECRET"
  /\ now < t.payload.exp
  /\ Get(t.payload, "productId") = "pluriell"
       => (Get(t.payload, "sub") # Undef /\ Get(t.payload, "email") # Undef)

\* the answer of GET /api/<product>/auth to request req
GatedAnswer(product, req) ==
  LET found == extractToken(req) IN
  /\ resp'.handler = "product-auth"
  /\ resp'.status \in {200, 401, 403}
  /\ resp'.status = 200
       <=> \E t \in found : VerifiedToken(t, clock) /\ Get(t.payload, "productId") = product
  /\ resp'.status = 403
       <=> \E t \in found : VerifiedToken(t, clock) /\ Get(t.payload, "productId") # product
  /\ resp'.status = 401
       <=> \A t \in found : ~VerifiedToken(t, clock)

\* C36: GET /api/pluriell/auth answers 200 only to a verified token whose
\* productId is 'pluriell' and GET /api/receipt/auth only to one whose
\* productId is 'receipt'; a verified token for another product or without
\* productId gets 403, and a request without a verified token gets 401
C36_ProductGating ==
  [][resp'.handler = "product-auth"
       => \A p \in {"pluriell", "receipt"} :
            ProductAuth(resp'.browser, p, resp'.req) => GatedAnswer(p, resp'.req)]_vars

\* a verified token minted for another product, or for none, has been
\* refused with 403
C36_Witness ==
  /\ resp.handler = "product-auth" /\ resp.status = 403
  /\ \E t \in resp.reqTokens :
       /\ VerifiedToken(t, resp.at)
       /\ Get(t.payload, "productId") \in {Undef, "product1", "receipt"}

\* a verified Receipt token has been answered with 200
C36_WitnessReceipt ==
  /\ resp.handler = "product-auth" /\ resp.status = 200
  /\ \E t \in resp.reqTokens :
       VerifiedToken(t, resp.at) /\ Get(t.payload, "productId") = "receipt"

\* a token signed by the broker is refused with 401 once expired
C36_WitnessExpired ==
  /\ resp.handler = "product-auth" /\ resp.status = 401
  /\ \E t \in resp.reqTokens :
       t.fmt = "jwt" /\ t.key = "JWT_SECRET" /\ resp.at >= t.payload.exp

\* the request being followed has been answered and has no callback left
Finished == handling.pc = "done" /\ ~handling.destroying

\* C37: on every path of GET /auth/callback, GET /auth/logout, GET
\* /auth/global-logout and POST /api/validate-token exactly one response is
\* sent (never a second one, and one by the time the handler is done), and
\* every request that has arrived terminates
C37_ExactlyOneResponse ==
  /\ [](handling.sent <= 1)
  /\ []((handling.pc = "done") => (handling.sent = 1))
  /\ (handling.pc = "start") ~> Finished

\* a callback whose handoff failed has finished with its one response
C37_Witness ==
  /\ Finished /\ handling.sent = 1
  /\ handling.route = "callback" /\ handling.authed /\ handling.productId = "pluriell"

\* a logout has finished after its destroy callback ran
C37_WitnessLogout ==
  Finished /\ handling.sent = 1 /\ handling.route \in {"logout", "global-logout"}

\* what getSessionStore returned since the last initializeRedis call agrees
\* with what that call returned
StoreAgreesWithInit ==
  /\ store.got = "redis" => store.initReturned = "client"
  /\ (store.initReturned = "null" /\ store.got # "none") => store.got = "null"

\* C38: once initializeRedis has returned (it has no path on which it
\* throws), getSessionStore returns a Redis-backed store only if the call
\* returned a connected client, and returns null if the call returned null
\* (no REDIS_URL, or connect failed)
C38_RedisStoreAvailability == ~store.initializing => StoreAgreesWithInit

\* C39: createSessionStore returns a usable store: a Redis store only in
\* production with the packages loaded and REDIS_URL set, and the in-memory
\* store in every other case, an error while setting Redis up included
C39_CreateSessionStoreFallback ==
  /\ store.created = "redis"
       => /\ env.NODE_ENV = "production" /\ store.packages /\ store.REDIS_URL
          /\ store.createdClient # "failed"
  /\ (store.created # "none"
      /\ ~(env.NODE_ENV = "production" /\ store.packages /\ store.REDIS_URL))
       => store.created = "memory"

====
